---- MODULE Spec2Model ----
(***************************************************************************)
(* A model of teo-sql-connector's connection and transaction layer:        *)
(* SQLConnection (connector/connection.rs) hands out SQLTransaction        *)
(* handles (connector/transaction.rs) over a pool of connections, with a   *)
(* process-wide slot for SQLite :memory: databases.                        *)
(***************************************************************************)
EXTENDS Integers, Sequences, FiniteSets, TLC

\* ------------------------------------------------------------------ bounds
MaxHandles == 3
MaxConns == 2
MaxProcs == 2
MaxArcs == 2
MaxId == 2
MaxVal == 2
Width == 6
MaxLen == 3

HandleIds == 1..MaxHandles
Conns == 1..MaxConns
Procs == 1..MaxProcs
Ids == 1..MaxId
Vals == 1..MaxVal

\* SQLDialect (MSSQL is declared but every dialect-specific path panics on it)
Dialects == {"MySQL", "PostgreSQL", "SQLite"}

VARIABLES
    dialect,             \* SQLConnection.dialect
    memory_mode,         \* SQLConnection.memory_mode
    checked_out,         \* connections of SQLConnection.pool that are checked out
    handles,             \* the SQLTransaction values alive, by identity
    committed,           \* the AtomicBool behind each SQLTransaction.committed
    UNIQUE_TRANSACTION,  \* the static slot: 0 (None) or the shared handle
    mutex,               \* holder of UNIQUE_TRANSACTION's tokio Mutex, 0 if free
    pc,                  \* where each caller is inside sqlite_memory_transaction
    kind,                \* the Connection method each caller is executing
    arcs,                \* how many Arc<dyn Transaction> of each handle callers hold
    last,                \* the operation that returned last, and how
    issued,              \* the statements that operation sent to the driver
    object,              \* the runtime Object the caller passes to save and delete
    table,               \* the rows of the object's model in the database
    db,                  \* the tables of the database: columns, indexes, has rows
    models,              \* the models the last migrate was called with
    data,                \* the rows of the tables User and Post, in insertion order
    found,               \* the last Execution::query: finder, statements, values
    built                \* the last text a builder returned, with its input

vars == <<dialect, memory_mode, checked_out, handles, committed,
          UNIQUE_TRANSACTION, mutex, pc, kind, arcs, last, issued, object, table,
          db, models, data, found, built>>

\* ------------------------------------------------------------- the handles
\* struct SQLTransaction { dialect, conn, tran, committed }; cell names the
\* AtomicBool the Arc in `committed` points to, tran the OwnedTransaction (0 is
\* None). root records how the value was made: by a checkout, or by spawn.
NoHandle == [dialect |-> "none", conn |-> 0, tran |-> 0, cell |-> 0, root |-> FALSE]

Live(h) == handles[h] # NoHandle

LiveHandles == {h \in HandleIds : Live(h)}

Held(h) == arcs[h] > 0

FreeHandle == CHOOSE h \in HandleIds : ~Live(h) /\ \A g \in HandleIds : g < h => Live(g)

HasFreeHandle == \E h \in HandleIds : ~Live(h)

is_sqlite(d) == d = "SQLite"

\* SQLConnection::transaction / no_transaction: the first test of both
MemoryPath == memory_mode /\ is_sqlite(dialect)

\* SQLTransaction::is_committed
is_committed(h) == committed[handles[h].cell]

\* SQLTransaction::is_transaction
is_transaction(h) == handles[h].tran # 0

\* SQLTransaction::new: a fresh AtomicBool(false) behind `committed`
NewSQLTransaction(h, d, c, t) ==
    [dialect |-> d, conn |-> c, tran |-> t, cell |-> h, root |-> TRUE]

\* The connections Quaint's pool can hand out: those nobody has checked out.
check_out == Conns \ checked_out

\* What an operation returned: path is the key path the caller passed, ret is
\* "ok", "err" (an Err value; err, at and msg are its name, key path and
\* message) or "panic"; drv tells whether it called the driver.
Ret(op, h, ret, drv) ==
    [op |-> op, h |-> h, path |-> <<>>, ret |-> ret, drv |-> drv,
     err |-> "none", at |-> <<>>, msg |-> ""]

\* The table of a model with the fields id (primary key, set by the caller)
\* and val: table[i] is the val of the row with id i.
Absent == 0

\* An Object as the connector sees it: is_new(), previous_identifier(),
\* identifier(), its val and keys_for_save().
NewObject(id, val) ==
    [is_new |-> TRUE, previous |-> id, id |-> id, val |-> val, keys |-> {"id", "val"}]

LoadedObject(id, val) ==
    [is_new |-> FALSE, previous |-> id, id |-> id, val |-> val, keys |-> {}]

\* ------------------------------------------------------ the schema
\* The tables a database can hold and the models declare
TableNames == {"Account", "Member", "User"}

\* A column descriptor: name, database type, not-null and default ("none": no
\* default)
Col(name, type, not_null, default) ==
    [name |-> name, type |-> type, not_null |-> not_null, default |-> default]

\* teo_runtime::model::index::Item, with len None
Item(field, sort) == [field |-> field, sort |-> sort]

\* teo_runtime::model::Index: type, name and ordered items
Index(type, name, items) == [type |-> type, name |-> name, items |-> items]

\* A Model as migrate reads it: table_name(), migration().renamed, the columns
\* of decode_model_columns, indexes() and allows_drop_when_migrate().
Model(table_name, renamed, columns, indexes, allows_drop) ==
    [table_name |-> table_name, renamed |-> renamed, columns |-> columns,
     indexes |-> indexes, allows_drop_when_migrate |-> allows_drop]

IdCol == Col("id", "int", TRUE, "none")

NameCol == Col("name", "text", FALSE, "none")

PrimaryIndex == Index("Primary", "", <<Item("id", "Asc")>>)

NameIndex == Index("Index", "by_name", <<Item("name", "Asc")>>)

NameIdIndex == Index("Unique", "name_id", <<Item("name", "Asc"), Item("id", "Desc")>>)

IndexedUserModel == Model("User", <<>>, {IdCol, NameCol}, {PrimaryIndex, NameIndex}, FALSE)

\* The declarations of the table User a caller migrates to
UserModels ==
    { Model("User", <<>>, {IdCol, NameCol}, {PrimaryIndex}, FALSE),
      IndexedUserModel,
      Model("User", <<>>, {IdCol, NameCol}, {PrimaryIndex, NameIdIndex}, FALSE),
      Model("User", <<>>, {IdCol, NameCol, Col("status", "text", TRUE, "none")},
            {PrimaryIndex}, FALSE),
      Model("User", <<>>, {IdCol, NameCol, Col("status", "text", TRUE, "none")},
            {PrimaryIndex, NameIndex}, TRUE),
      Model("User", <<>>, {IdCol, NameCol, Col("status", "text", TRUE, "'new'")},
            {PrimaryIndex}, FALSE),
      Model("User", <<>>, {IdCol, Col("name", "int", FALSE, "none")}, {PrimaryIndex}, FALSE),
      Model("User", <<>>, {IdCol, Col("name", "text", FALSE, "'a'")}, {PrimaryIndex}, FALSE),
      Model("User", <<>>, {IdCol}, {PrimaryIndex}, FALSE) }

RenamedMemberModel == Model("Member", <<"Account", "User">>, {IdCol, NameCol}, {PrimaryIndex}, FALSE)

\* Declarations of Member, a table that was called Account or User before
MemberModels ==
    { RenamedMemberModel,
      Model("Member", <<"User">>, {IdCol, Col("name", "int", FALSE, "none")},
            {PrimaryIndex}, FALSE) }

AccountModel == Model("Account", <<>>, {IdCol, NameCol}, {PrimaryIndex}, FALSE)

\* The model lists migrate is called with
ModelSets ==
    {<<m>> : m \in UserModels \cup MemberModels \cup {AccountModel}}
    \cup {<<u, RenamedMemberModel>> : u \in {AccountModel, IndexedUserModel}}
    \cup {<<RenamedMemberModel, u>> : u \in {AccountModel, IndexedUserModel}}
    \cup {<<AccountModel, IndexedUserModel>>}
    \cup {<<>>}

\* A table of the database: its columns, its indexes as they were created
\* (the primary key's index carries no name of its own) and whether it has rows
NoTable == [columns |-> {}, indices |-> {}, has_records |-> FALSE, exists |-> FALSE]

EmptyDatabase == [t \in TableNames |-> NoTable]

\* ------------------------------------------------- index names (IndexExt)
RECURSIVE JoinFields(_)
JoinFields(items) ==
    IF Len(items) = 0 THEN ""
    ELSE IF Len(items) = 1 THEN items[1].field
    ELSE items[1].field \o "_" \o JoinFields(Tail(items))

\* IndexExt::joined_names: self.cache.keys.join("_")
joined_names(index) == JoinFields(index.items)

\* IndexExt::normalize_name_psql
normalize_name_psql(index, t) ==
    IF index.type = "Primary" THEN t \o "_pkey"
    ELSE t \o "_" \o joined_names(index) \o "_idx"

\* IndexExt::normalize_name_normal
normalize_name_normal(index, t) == t \o "_" \o joined_names(index)

\* IndexExt::normalize_name
normalize_name(index, t, d) ==
    IF index.type = "Primary"
    THEN CASE d = "MySQL" -> "PRIMARY"
           [] d = "SQLite" -> "sqlite_autoindex_" \o t \o "_1"
           [] d = "PostgreSQL" -> normalize_name_psql(index, t)
    ELSE IF d = "PostgreSQL" THEN normalize_name_psql(index, t)
         ELSE normalize_name_normal(index, t)

\* IndexExt::sql_name
sql_name(index, t, d) ==
    IF index.type = "Primary" THEN normalize_name(index, t, d)
    ELSE IF is_sqlite(d) THEN t \o "_" \o index.name
    ELSE index.name

\* IndexExt::psql_primary_to_unique
psql_primary_to_unique(index, t) ==
    Index("Unique", t \o "_" \o joined_names(index) \o "_pkey", index.items)

\* SQLMigration::normalized_model_indices
normalized_model_indices(indices, d, t) ==
    LET results == {Index(i.type, sql_name(i, t, d), i.items) : i \in indices} IN
    IF d = "PostgreSQL"
    THEN results \cup {psql_primary_to_unique(p, t) : p \in {r \in results : r.type = "Primary"}}
    ELSE results

\* SQLMigration::sqlite_db_indices: every further row of an index pushes its
\* item on a clone of the items, and the index is rebuilt from the items it
\* had, so an index keeps the item of its first row only.
sqlite_db_indices(stored) ==
    {Index(i.type, i.name, <<i.items[1]>>) : i \in stored}

\* SQLMigration::db_indices of the table as it is in `database`: the primary
\* key's index is reported under the name the dialect gives it.
DbIndices(database, d, t) ==
    LET stored == {Index(i.type,
                         IF i.type = "Primary" THEN normalize_name(i, t, d) ELSE i.name,
                         i.items) : i \in database[t].indices} IN
    IF is_sqlite(d) THEN sqlite_db_indices(stored) ELSE stored

\* ------------------------------------- the diff (ColumnDecoder, from the spec)
RECURSIVE SeqOf(_)
\* The members of a set in some fixed order
SeqOf(S) ==
    IF S = {} THEN <<>>
    ELSE LET x == CHOOSE y \in S : TRUE IN <<x>> \o SeqOf(S \ {x})

NoIndex == Index("none", "", <<>>)

NoCol == Col("", "", FALSE, "none")

\* ColumnManipulation: CreateIndex(index), DropIndex(index), AddColumn(column,
\* default), AlterColumn(old, column), RemoveColumn(old.name),
\* RenameColumn { old.name, column.name }
Manipulation(k, index, column, old) ==
    [kind |-> k, index |-> index, column |-> column, old |-> old]

\* ColumnDecoder::decode_model_columns
decode_model_columns(model) == model.columns

\* ColumnDecoder::need_to_alter_any_columns: a column of the model is in the
\* table under its name with another descriptor
need_to_alter_any_columns(db_columns, model_columns) ==
    \E c \in model_columns, o \in db_columns : c.name = o.name /\ c # o

\* ColumnDecoder::manipulations, the ordered plan: indexes the table does not
\* have are created, indexes of the table the model does not have are
\* dropped, columns are added, altered and removed. (No model here renames a
\* column.)
manipulations(db_columns, model_columns, db_indices, model_indices) ==
    LET names == {o.name : o \in db_columns}
        added == {c \in model_columns : c.name \notin names}
        altered == {c \in model_columns : c.name \in names /\ c \notin db_columns}
        removed == {o \in db_columns : o.name \notin {c.name : c \in model_columns}}
        Was(n) == CHOOSE o \in db_columns : o.name = n
    IN
    [i \in 1..Cardinality(model_indices \ db_indices) |->
        Manipulation("CreateIndex", SeqOf(model_indices \ db_indices)[i], NoCol, NoCol)]
    \o [i \in 1..Cardinality(db_indices \ model_indices) |->
        Manipulation("DropIndex", SeqOf(db_indices \ model_indices)[i], NoCol, NoCol)]
    \o [i \in 1..Cardinality(added) |->
        Manipulation("AddColumn", NoIndex, SeqOf(added)[i], NoCol)]
    \o [i \in 1..Cardinality(altered) |->
        Manipulation("AlterColumn", NoIndex, SeqOf(altered)[i], Was(SeqOf(altered)[i].name))]
    \o [i \in 1..Cardinality(removed) |->
        Manipulation("RemoveColumn", NoIndex, NoCol, SeqOf(removed)[i])]

\* ColumnManipulation::is_add_column_non_null: a NOT NULL column without a
\* default is added
is_add_column_non_null(m) ==
    m.kind = "AddColumn" /\ m.column.not_null /\ m.column.default = "none"

\* ------------------------------------------------- the queried tables
\* Rows of the models User(id) and Post(id, userId, score)
UserRow(id) == [id |-> id]

PostRow(id, userId, score) == [id |-> id, userId |-> userId, score |-> score]

\* teo_runtime::model::Relation without a join table: fields of the model,
\* references of the opposite model
Relation(name, is_vec, fields, references, opposite) ==
    [name |-> name, is_vec |-> is_vec, fields |-> fields, references |-> references,
     opposite |-> opposite]

\* User.posts is a to-many relation, Post.author a to-one relation
Relations ==
    [User |-> {Relation("posts", TRUE, <<"id">>, <<"userId">>, "Post")},
     Post |-> {Relation("author", FALSE, <<"userId">>, <<"id">>, "User")}]

\* model.relation(key)
relation(model, key) == CHOOSE r \in Relations[model] : r.name = key

\* model.primary_index().items: the fields of the primary key
primary_index(model) == <<"id">>

\* The contents of the two tables, in insertion order. The last post of the
\* second is of a user that is not there.
DataSets ==
    { [User |-> <<UserRow(1), UserRow(2)>>,
       Post |-> <<PostRow(10, 1, 5), PostRow(11, 1, 5), PostRow(12, 1, 6)>>],
      [User |-> <<UserRow(1), UserRow(2)>>,
       Post |-> <<PostRow(10, 1, 6), PostRow(11, 2, 5), PostRow(12, 1, 6), PostRow(13, 3, 5)>>] }

NoData == [User |-> <<>>, Post |-> <<>>]

\* A finder. An absent key is <<>>, a key with the value v is <<v>>; orderBy
\* and distinct are the arrays themselves; include holds at most one relation.
Finder(orderBy, distinct, skip, take, pageSize, pageNumber, include) ==
    [orderBy |-> orderBy, distinct |-> distinct, skip |-> skip, take |-> take,
     pageSize |-> pageSize, pageNumber |-> pageNumber, include |-> include]

\* teon!({})
EmptyFinder == Finder(<<>>, <<>>, <<>>, <<>>, <<>>, <<>>, <<>>)

\* One item of orderBy: { key: "asc" | "desc" }
By(key, value) == [key |-> key, value |-> value]

\* One entry of include: the relation's name and the nested finder
Include(key, value) == [key |-> key, value |-> value]

NoFound ==
    [model |-> "none", finder |-> EmptyFinder, ret |-> "ok", stmts |-> <<>>,
     rows |-> <<>>, values |-> <<>>]

\* No builder has been called yet
NoBuilt == [op |-> "none"]

Init ==
    /\ dialect \in Dialects
    /\ memory_mode \in BOOLEAN
    /\ checked_out = {}
    /\ handles = [h \in HandleIds |-> NoHandle]
    /\ committed = [h \in HandleIds |-> FALSE]
    /\ UNIQUE_TRANSACTION = 0
    /\ mutex = 0
    /\ pc = [p \in Procs |-> "idle"]
    /\ kind = [p \in Procs |-> "none"]
    /\ arcs = [h \in HandleIds |-> 0]
    /\ last = Ret("none", 0, "ok", FALSE)
    /\ issued = <<>>
    /\ object = NewObject(1, 1)
    /\ table = [i \in Ids |-> Absent]
    /\ db = EmptyDatabase
    /\ models = <<>>
    /\ data = NoData
    /\ found = NoFound
    /\ built = NoBuilt

\* ------------------------------------------------- Connection::transaction
\* Arc::new(SQLTransaction { .. }): the value takes the first free identity and
\* the caller holds the one Arc to it.
Install(h, rec) ==
    /\ handles' = [handles EXCEPT ![h] = rec]
    /\ committed' = [committed EXCEPT ![rec.cell] = IF rec.cell = h THEN FALSE ELSE @]
    /\ arcs' = [arcs EXCEPT ![h] = 1]

\* if self.memory_mode && self.dialect.is_sqlite() { return self.sqlite_memory_transaction().await; }
EnterMemory(p, k) ==
    /\ MemoryPath
    /\ pc' = [pc EXCEPT ![p] = "lock"]
    /\ kind' = [kind EXCEPT ![p] = k]
    /\ UNCHANGED <<data, found, built, db, models, issued, object, table, dialect, memory_mode, checked_out, handles, committed,
                   UNIQUE_TRANSACTION, mutex, arcs, last>>

\* The body of a Connection method after the memory-mode test: a pooled
\* connection drawn from `avail`, around it an owned transaction (withTran) or
\* None. The struct literal of connection.rs:71-75 names no `committed`; the
\* flag is the fresh false one every constructor makes.
CheckOutFrom(k, avail, withTran) ==
    /\ ~MemoryPath
    /\ \/ \E c \in avail :
            \* check_out (and start_owned_transaction) succeed
            /\ HasFreeHandle
            /\ Install(FreeHandle,
                       NewSQLTransaction(FreeHandle, dialect, c,
                                         IF withTran THEN FreeHandle ELSE 0))
            /\ checked_out' = checked_out \cup {c}
            /\ last' = Ret(k, FreeHandle, "ok", TRUE)
       \/ \* start_owned_transaction fails: .unwrap() panics, the connection is dropped
          /\ withTran
          /\ avail # {}
          /\ last' = Ret(k, 0, "panic", TRUE)
          /\ UNCHANGED <<checked_out, handles, committed, arcs>>
       \/ \* check_out fails: Err("cannot create pooled connection: ..")
          /\ last' = Ret(k, 0, "err", TRUE)
          /\ UNCHANGED <<checked_out, handles, committed, arcs>>
    /\ UNCHANGED <<data, found, built, db, models, issued, object, table, dialect, memory_mode, UNIQUE_TRANSACTION, mutex, pc, kind>>

\* A transaction() that keeps using a connection some live handle already has.
transaction_cached(p) ==
    /\ pc[p] = "idle"
    /\ \/ EnterMemory(p, "transaction")
       \/ CheckOutFrom("transaction",
                       IF LiveHandles = {} THEN check_out
                       ELSE {handles[h].conn : h \in LiveHandles}, TRUE)

\* A transaction() that passes None for the owned transaction.
transaction_none(p) ==
    /\ pc[p] = "idle"
    /\ \/ EnterMemory(p, "transaction")
       \/ CheckOutFrom("transaction", check_out, FALSE)

\* SQLConnection::transaction
transaction(p) ==
    /\ pc[p] = "idle"
    /\ \/ EnterMemory(p, "transaction")
       \/ CheckOutFrom("transaction", check_out, TRUE)

\* SQLConnection::no_transaction
no_transaction(p) ==
    /\ pc[p] = "idle"
    /\ \/ EnterMemory(p, "no_transaction")
       \/ CheckOutFrom("no_transaction", check_out, FALSE)

\* ------------------------------------------- sqlite_memory_transaction
\* A lock() that does not wait for the holder to release.
lock_nowait(p) ==
    /\ pc[p] = "lock"
    /\ mutex' = p
    /\ pc' = [pc EXCEPT ![p] = "locked"]
    /\ UNCHANGED <<data, found, built, db, models, issued, object, table, dialect, memory_mode, checked_out, handles, committed,
                   UNIQUE_TRANSACTION, kind, arcs, last>>

\* let mut connection = UNIQUE_TRANSACTION.lock().await;
lock(p) ==
    /\ pc[p] = "lock"
    /\ mutex = 0
    /\ mutex' = p
    /\ pc' = [pc EXCEPT ![p] = "locked"]
    /\ UNCHANGED <<data, found, built, db, models, issued, object, table, dialect, memory_mode, checked_out, handles, committed,
                   UNIQUE_TRANSACTION, kind, arcs, last>>

\* The guard is dropped when the function returns.
Unlock(p) ==
    /\ mutex' = 0
    /\ pc' = [pc EXCEPT ![p] = "idle"]
    /\ kind' = [kind EXCEPT ![p] = "none"]

\* if connection.is_none() { .. self.pool.check_out().await .. } else { Ok(connection.clone().unwrap()) }
slot_test(p) ==
    /\ pc[p] = "locked"
    /\ \/ /\ UNIQUE_TRANSACTION = 0
          /\ pc' = [pc EXCEPT ![p] = "checkout"]
          /\ UNCHANGED <<mutex, kind, arcs, last>>
       \/ /\ UNIQUE_TRANSACTION # 0
          /\ arcs[UNIQUE_TRANSACTION] < MaxArcs
          /\ arcs' = [arcs EXCEPT ![UNIQUE_TRANSACTION] = @ + 1]
          /\ last' = Ret(kind[p], UNIQUE_TRANSACTION, "ok", FALSE)
          /\ Unlock(p)
    /\ UNCHANGED <<data, found, built, db, models, issued, object, table, dialect, memory_mode, checked_out, handles, committed,
                   UNIQUE_TRANSACTION>>

\* the check_out inside sqlite_memory_transaction returns
slot_fill(p) ==
    /\ pc[p] = "checkout"
    /\ \/ \E c \in check_out :
            \* *connection = Some(result.clone()); Ok(result)
            /\ HasFreeHandle
            /\ Install(FreeHandle, NewSQLTransaction(FreeHandle, dialect, c, 0))
            /\ checked_out' = checked_out \cup {c}
            /\ UNIQUE_TRANSACTION' = FreeHandle
            /\ last' = Ret(kind[p], FreeHandle, "ok", TRUE)
       \/ \* Err(..)?: the slot stays None
          /\ last' = Ret(kind[p], 0, "err", TRUE)
          /\ UNCHANGED <<checked_out, handles, committed, arcs, UNIQUE_TRANSACTION>>
    /\ Unlock(p)
    /\ UNCHANGED <<data, found, built, db, models, issued, object, table, dialect, memory_mode>>

\* ------------------------------------------------- impl Transaction
\* What no operation on a handle touches.
ConnFrame ==
    UNCHANGED <<data, found, built, db, models, issued, object, table, dialect, memory_mode, UNIQUE_TRANSACTION, mutex, pc, kind>>

\* What commit() does to the handle, with the store of the flag placed
\* "before" the driver call, "after" it (on success or without an owned
\* transaction), or "inside" the `if let Some(tran)`.
CommitWith(h, store) ==
    /\ Held(h)
    /\ IF handles[h].tran # 0
       THEN \/ \* Ok(()) => ()
               /\ committed' = [committed EXCEPT ![handles[h].cell] = TRUE]
               /\ last' = Ret("commit", h, "ok", TRUE)
            \/ \* Err(err) => return Err(Error::new(err.to_string()))
               /\ committed' = [committed EXCEPT ![handles[h].cell] =
                                   IF store = "before" THEN TRUE ELSE @]
               /\ last' = Ret("commit", h, "err", TRUE)
       ELSE /\ committed' = [committed EXCEPT ![handles[h].cell] =
                                IF store = "inside" THEN @ ELSE TRUE]
            /\ last' = Ret("commit", h, "ok", FALSE)
    /\ ConnFrame
    /\ UNCHANGED <<checked_out, handles, arcs>>

\* A commit() that stores the flag before it looks at the driver's answer.
commit_early(h) == CommitWith(h, "before")

\* A commit() that stores the flag only inside `if let Some(tran)`.
commit_inside(h) == CommitWith(h, "inside")

\* SQLTransaction::commit. The driver's commit() may fail or succeed.
commit(h) == CommitWith(h, "after")

\* SQLTransaction::abort
abort(h) ==
    /\ Held(h)
    /\ IF handles[h].tran # 0
       THEN \/ \* Ok(()) => ()
               last' = Ret("abort", h, "ok", TRUE)
            \/ \* Err(err) => return Err(Error::new(err.to_string()))
               last' = Ret("abort", h, "err", TRUE)
       ELSE last' = Ret("abort", h, "ok", FALSE)
    /\ ConnFrame
    /\ UNCHANGED <<checked_out, handles, committed, arcs>>

\* The value spawn() builds, with the AtomicBool named by `cell`.
SpawnWith(h, cell) ==
    /\ Held(h)
    /\ \/ \* start_owned_transaction(self.conn.clone(), None) succeeds
          /\ HasFreeHandle
          /\ Install(FreeHandle,
                     [dialect |-> handles[h].dialect, conn |-> handles[h].conn,
                      tran |-> FreeHandle, cell |-> cell, root |-> FALSE])
          /\ last' = Ret("spawn", FreeHandle, "ok", TRUE)
       \/ \* it fails: .unwrap() panics
          /\ last' = Ret("spawn", h, "panic", TRUE)
          /\ UNCHANGED <<handles, committed, arcs>>
    /\ ConnFrame
    /\ UNCHANGED checked_out

\* A spawn() that clones the parent's `committed` Arc.
spawn_shared(h) == SpawnWith(h, handles[h].cell)

\* SQLTransaction::spawn: committed: Arc::new(AtomicBool::new(false))
spawn(h) == SpawnWith(h, FreeHandle)

\* A caller drops an Arc<dyn Transaction>. With the last Arc gone the
\* SQLTransaction is dropped, and with the last Arc<PooledConnection> the
\* connection goes back to the pool.
Drop(h) ==
    /\ Held(h)
    /\ arcs' = [arcs EXCEPT ![h] = @ - 1]
    /\ IF arcs[h] > 1 \/ UNIQUE_TRANSACTION = h
       THEN UNCHANGED <<handles, committed, checked_out>>
       ELSE /\ handles' = [handles EXCEPT ![h] = NoHandle]
            /\ committed' = [committed EXCEPT ![handles[h].cell] =
                               IF \E g \in LiveHandles \ {h} : handles[g].cell = handles[h].cell
                               THEN @ ELSE FALSE]
            /\ checked_out' =
                  IF \E g \in LiveHandles \ {h} : handles[g].conn = handles[h].conn
                  THEN checked_out ELSE checked_out \ {handles[h].conn}
    /\ last' = Ret("drop", h, "ok", FALSE)
    /\ ConnFrame

Next ==
    \/ \E p \in Procs : transaction(p)
    \/ \E p \in Procs : no_transaction(p)
    \/ \E p \in Procs : lock(p)
    \/ \E p \in Procs : slot_test(p)
    \/ \E p \in Procs : slot_fill(p)
    \/ \E h \in HandleIds : commit(h)
    \/ \E h \in HandleIds : abort(h)
    \/ \E h \in HandleIds : spawn(h)
    \/ \E h \in HandleIds : Drop(h)

Spec == Init /\ [][Next]_vars

\* ------------------------------------------- the statement operations
\* The operations of impl Transaction that send statements, on the handle
\* OpsHandle and an Object of the model with the table above.
OpsHandle == 1

\* The key paths callers pass
Paths == {<<"data">>, <<"data", "author">>}

\* SQLTransaction::queryable: the owned transaction if there is one
queryable(h) == IF handles[h].tran # 0 THEN "tran" ELSE "conn"

\* SQLTransaction::conn: the pooled connection itself
conn(h) == "conn"

\* A statement as the driver received it: through which Queryable, with which
\* identifier in its WHERE (or its VALUES), how many rows it touched or
\* returned, and the failure the driver reported (NoError: none).
Stmt(s, via, key, rows, e) ==
    [stmt |-> s, via |-> via, key |-> key, rows |-> rows, error |-> e]

\* quaint_forked::error::Error as the connector reads it: kind(), the
\* DatabaseConstraint of a UniqueConstraintViolation, original_message()
\* (original: whether it is Some) and its Display text.
UniqueViolations ==
    { [kind |-> "UniqueConstraintViolation", constraint |-> "Fields",
       names |-> <<"id">>, original |-> TRUE, text |-> "unique: id"],
      [kind |-> "UniqueConstraintViolation", constraint |-> "Fields",
       names |-> <<"id", "val">>, original |-> TRUE, text |-> "unique: id, val"],
      [kind |-> "UniqueConstraintViolation", constraint |-> "Index",
       names |-> <<"User_pkey">>, original |-> TRUE, text |-> "unique: User_pkey"],
      [kind |-> "UniqueConstraintViolation", constraint |-> "ForeignKey",
       names |-> <<>>, original |-> TRUE, text |-> "unique: foreign key"] }

NoError ==
    [kind |-> "none", constraint |-> "none", names |-> <<>>, original |-> FALSE, text |-> ""]

Failed(st) == st.error # NoError

OtherFailures ==
    { [kind |-> "QueryError", constraint |-> "none",
       names |-> <<>>, original |-> TRUE, text |-> "query error"],
      [kind |-> "ConnectionClosed", constraint |-> "none",
       names |-> <<>>, original |-> FALSE, text |-> "connection closed"] }

\* An Err value of teo_result: its name, key path and message
Err(name, at, msg) == [name |-> name, at |-> at, msg |-> msg]

RetOk(op, h, path) == [Ret(op, h, "ok", TRUE) EXCEPT !.path = path]

RetErr(op, h, path, e) ==
    [op |-> op, h |-> h, path |-> path, ret |-> "err", drv |-> TRUE,
     err |-> e.name, at |-> e.at, msg |-> e.msg]

\* fields.iter().join(", ")
RECURSIVE join(_)
join(fields) ==
    IF Len(fields) = 0 THEN ""
    ELSE IF Len(fields) = 1 THEN fields[1]
    ELSE fields[1] \o ", " \o join(Tail(fields))

\* SQLTransaction::handle_err_result
handle_err_result(err, path) ==
    IF err.kind = "UniqueConstraintViolation"
    THEN CASE err.constraint = "Fields" ->
                 IF Len(err.names) = 1
                 THEN Err("UniqueValueDuplicated", Append(path, err.names[1]), err.names[1])
                 ELSE Err("UniqueValueDuplicated", path, join(err.names))
           [] err.constraint = "Index" ->
                 Err("UniqueValueDuplicated", path, err.names[1])
           [] OTHER -> Err("UnknownDatabaseWriteError", path, err.text)
    ELSE Err("UnknownDatabaseWriteError", path, err.text)

\* What a statement operation leaves alone of the connection and its handles
HandleFrame ==
    UNCHANGED <<dialect, memory_mode, checked_out, handles, committed,
                UNIQUE_TRANSACTION, mutex, pc, kind, arcs>>

\* What the caller and the rest of the system leave alone during a statement
\* operation other than migrate.
OpsFrame ==
    /\ HandleFrame
    /\ UNCHANGED <<db, models, data, found, built>>

\* SQLTransaction::create_object, for a model without auto keys: one INSERT
\* of the keys_for_save, through queryable() on PostgreSQL and through conn()
\* elsewhere. The driver refuses a second row with the same id.
create_object(h, path) ==
    LET via == IF handles[h].dialect = "PostgreSQL" THEN queryable(h) ELSE conn(h) IN
    /\ \/ \* Ok(..) => Ok(())
          /\ table[object.id] = Absent
          /\ table' = [table EXCEPT ![object.id] = object.val]
          /\ issued' = <<Stmt("INSERT", via, object.id, 1, NoError)>>
          /\ last' = RetOk("save_object", h, path)
       \/ \* Err(err) => Err(self.handle_err_result(err, path))
          \E e \in UniqueViolations \cup OtherFailures :
             /\ e \in UniqueViolations => table[object.id] # Absent
             /\ issued' = <<Stmt("INSERT", via, object.id, 0, e)>>
             /\ last' = RetErr("save_object", h, path, handle_err_result(e, path))
             /\ UNCHANGED table
    /\ UNCHANGED object

\* The table after UPDATE .. SET <keys_for_save> WHERE id = previous
Updated(t, o) ==
    IF t[o.previous] = Absent THEN t
    ELSE [i \in Ids |->
            IF i = o.id THEN (IF "val" \in o.keys THEN o.val ELSE t[o.previous])
            ELSE IF i = o.previous THEN Absent
            ELSE t[i]]

\* SQLTransaction::update_object: the UPDATE through conn() when there is a
\* value to set, then Execution::query(.., {"where": identifier, "take": 1})
\* through queryable().
update_object(h, path) ==
    LET sets == object.keys # {}
        collides == /\ object.id # object.previous
                    /\ table[object.previous] # Absent
                    /\ table[object.id] # Absent
        update == Stmt("UPDATE", conn(h), object.previous,
                       IF table[object.previous] = Absent THEN 0 ELSE 1, NoError)
        before == IF sets THEN <<update>> ELSE <<>>
        after == IF sets THEN Updated(table, object) ELSE table
    IN
    \/ \* result.is_err(): unknown_database_write_error(path, ..)
       /\ sets
       /\ \E e \in UniqueViolations \cup OtherFailures :
             /\ e \in UniqueViolations => collides
             /\ last' = RetErr("save_object", h, path,
                                Err("UnknownDatabaseWriteError", path, e.text))
             /\ issued' = <<Stmt("UPDATE", conn(h), object.previous, 0, e)>>
       /\ UNCHANGED <<table, object>>
    \/ \* the query after the UPDATE fails: unknown_database_find_error(path, ..)
       /\ sets => ~collides
       /\ \E e \in OtherFailures :
             /\ last' = RetErr("save_object", h, path,
                                Err("UnknownDatabaseFindError", path, e.text))
             /\ issued' = before \o <<Stmt("SELECT", queryable(h), object.id, 0, e)>>
       /\ table' = after
       /\ UNCHANGED object
    \/ \* result.is_empty(): Error::not_found_pathed(path, "not found")
       /\ sets => ~collides
       /\ after[object.id] = Absent
       /\ last' = RetErr("save_object", h, path, Err("NotFound", path, "not found"))
       /\ issued' = before \o <<Stmt("SELECT", queryable(h), object.id, 0, NoError)>>
       /\ table' = after
       /\ UNCHANGED object
    \/ \* object.set_from_database_result_value(result.get(0).unwrap(), None, None)
       /\ sets => ~collides
       /\ after[object.id] # Absent
       /\ last' = RetOk("save_object", h, path)
       /\ issued' = before \o <<Stmt("SELECT", queryable(h), object.id, 1, NoError)>>
       /\ table' = after
       /\ object' = LoadedObject(object.id, after[object.id])

\* SQLTransaction::save_object
save_object(h, path) ==
    /\ Held(h)
    /\ IF object.is_new THEN create_object(h, path) ELSE update_object(h, path)
    /\ OpsFrame

\* SQLTransaction::delete_object, with the identifier its WHERE is built from
DeleteWhere(h, path, key) ==
    /\ Held(h)
    /\ IF object.is_new
       THEN \* return Err(error_ext::object_is_not_saved_thus_cant_be_deleted(path))
            /\ last' = [RetErr("delete_object", h, path,
                               Err("ObjectIsNotSavedThusCantBeDeleted", path, ""))
                        EXCEPT !.drv = FALSE]
            /\ issued' = <<>>
            /\ UNCHANGED table
       ELSE \/ \* result.is_err(): unknown_database_write_error(path, ..)
               /\ \E e \in OtherFailures :
                     /\ last' = RetErr("delete_object", h, path,
                                       Err("UnknownDatabaseWriteError", path, e.text))
                     /\ issued' = <<Stmt("DELETE", queryable(h), key, 0, e)>>
               /\ UNCHANGED table
            \/ \* Ok(())
               /\ last' = RetOk("delete_object", h, path)
               /\ issued' = <<Stmt("DELETE", queryable(h), key,
                                   IF table[key] = Absent THEN 0 ELSE 1, NoError)>>
               /\ table' = [table EXCEPT ![key] = Absent]
    /\ UNCHANGED object
    /\ OpsFrame

\* A delete_object whose WHERE comes from previous_identifier().
delete_object_previous(h, path) == DeleteWhere(h, path, object.previous)

\* SQLTransaction::delete_object: Query::where_from_identifier(object, ..)
delete_object(h, path) == DeleteWhere(h, path, object.id)

\* SQLTransaction::purge, called with the one model: DELETE FROM through
\* conn(), its result unwrapped
purge(h) ==
    /\ Held(h)
    /\ \/ \* .unwrap() of an Err
          /\ last' = Ret("purge", h, "panic", TRUE)
          /\ \E e \in OtherFailures : issued' = <<Stmt("DELETE", conn(h), 0, 0, e)>>
          /\ UNCHANGED table
       \/ /\ last' = Ret("purge", h, "ok", TRUE)
          /\ issued' = <<Stmt("DELETE", conn(h), 0,
                              Cardinality({i \in Ids : table[i] # Absent}), NoError)>>
          /\ table' = [i \in Ids |-> Absent]
    /\ UNCHANGED object
    /\ OpsFrame

\* SQLTransaction::query_raw, called with a SELECT over the table
query_raw(h) ==
    /\ Held(h)
    /\ \/ \E e \in OtherFailures :
            \* Err(error_ext::invalid_sql_query(msg.unwrap())): msg is original_message()
            /\ last' = IF e.original
                       THEN RetErr("query_raw", h, <<>>, Err("InvalidSqlQuery", <<>>, e.text))
                       ELSE Ret("query_raw", h, "panic", TRUE)
            /\ issued' = <<Stmt("RAW", queryable(h), 0, 0, e)>>
       \/ \* Ok(Value::Null) or Ok(RowDecoder::decode_raw_result_set(result))
          /\ last' = Ret("query_raw", h, "ok", TRUE)
          /\ issued' = <<Stmt("RAW", queryable(h), 0,
                              Cardinality({i \in Ids : table[i] # Absent}), NoError)>>
    /\ UNCHANGED <<object, table>>
    /\ OpsFrame

\* The operations that only read, each one Execution::query_* through queryable()
FindOps == {"find_many", "count", "count_objects", "count_fields", "aggregate", "group_by"}

\* find_many, count, count_objects, count_fields, aggregate, group_by with a
\* finder that selects every row
find(h, op, path) ==
    /\ Held(h)
    /\ \/ \E e \in OtherFailures :
            \* Err(err) => unknown_database_find_error(path, ..)
            /\ last' = RetErr(op, h, path, Err("UnknownDatabaseFindError", path, e.text))
            /\ issued' = <<Stmt("SELECT", queryable(h), 0, 0, e)>>
       \/ /\ last' = RetOk(op, h, path)
          /\ issued' = <<Stmt("SELECT", queryable(h), 0,
                              Cardinality({i \in Ids : table[i] # Absent}), NoError)>>
    /\ UNCHANGED <<object, table>>
    /\ OpsFrame

\* SQLTransaction::find_unique with {"where": {"id": i}}: the caller keeps the
\* object found
find_unique(h, i, path) ==
    /\ Held(h)
    /\ \/ /\ \E e \in OtherFailures :
               /\ last' = RetErr("find_unique", h, path,
                                 Err("UnknownDatabaseFindError", path, e.text))
               /\ issued' = <<Stmt("SELECT", queryable(h), i, 0, e)>>
          /\ UNCHANGED object
       \/ \* Ok(None)
          /\ table[i] = Absent
          /\ last' = RetOk("find_unique", h, path)
          /\ issued' = <<Stmt("SELECT", queryable(h), i, 0, NoError)>>
          /\ UNCHANGED object
       \/ \* Ok(Some(objects.get(0).unwrap().clone()))
          /\ table[i] # Absent
          /\ last' = RetOk("find_unique", h, path)
          /\ issued' = <<Stmt("SELECT", queryable(h), i, 1, NoError)>>
          /\ object' = LoadedObject(i, table[i])
    /\ UNCHANGED table
    /\ OpsFrame

\* ------------------------------------------------- SQLMigration::migrate
\* The run of one migrate: the Queryable and dialect it uses, db_tables, the
\* database as the statements so far left it, those statements, and how the
\* run stands ("ok", or "panic" with the panic message).
Run(via, d, tables, database, stmts) ==
    [via |-> via, d |-> d, tables |-> tables, db |-> database, issued |-> stmts,
     ret |-> "ok", msg |-> ""]

\* conn.query / conn.execute of a statement about `arg` of table t
Say(st, stmt, t, arg) ==
    [st EXCEPT !.issued = Append(@, Stmt(stmt, st.via, <<t, arg>>, 0, NoError))]

\* panic!(..), or .unwrap() of the error the database answers with
Panic(st, msg) == [st EXCEPT !.ret = "panic", !.msg = msg]

\* SQLMigration::get_db_user_tables
get_db_user_tables(database) == SeqOf({t \in TableNames : database[t].exists})

Contains(tables, t) == \E i \in 1..Len(tables) : tables[i] = t

\* db_tables.remove(index of t)
Remove(tables, t) == SelectSeq(tables, LAMBDA x : x # t)

\* SQLMigration::table_has_records
table_has_records(st, t) == st.db[t].has_records

RECURSIVE CreateIndexes(_, _, _)
\* the loop of create_table over the indexes that are not primary
CreateIndexes(st, t, indexes) ==
    IF Len(indexes) = 0 THEN st
    ELSE LET index == indexes[1]
             created == Index(index.type, sql_name(index, t, st.d), index.items)
         IN CreateIndexes(
               [Say(st, "CREATE INDEX", t, created.name)
                   EXCEPT !.db[t].indices = @ \cup {created}],
               t, Tail(indexes))

\* SQLMigration::create_table: the table with its columns and its primary key,
\* then an index for every index of the model that is not primary
create_table(st, model) ==
    LET t == model.table_name
        made == [columns |-> decode_model_columns(model),
                 indices |-> {Index("Primary", "", i.items) :
                                 i \in {x \in model.indexes : x.type = "Primary"}},
                 has_records |-> FALSE, exists |-> TRUE]
    IN CreateIndexes([Say(st, "CREATE TABLE", t, "") EXCEPT !.db[t] = made], t,
                     SeqOf({x \in model.indexes : x.type # "Primary"}))

\* SQLMigration::drop_table
drop_table(st, t) == [Say(st, "DROP TABLE", t, "") EXCEPT !.db[t] = NoTable]

\* SQLMigration::rename_table
rename_table(st, old_name, t) ==
    [Say(st, "RENAME TABLE", old_name, t)
        EXCEPT !.db = [x \in TableNames |->
                          IF x = t THEN st.db[old_name]
                          ELSE IF x = old_name THEN NoTable
                          ELSE st.db[x]]]

\* SQLMigration::psql_alter_clauses and what each clause does to the column
psql_alter_clauses(old, new) ==
    (IF old.type # new.type THEN <<"TYPE">> ELSE <<>>)
    \o (IF old.default = "none" /\ new.default # "none" THEN <<"SET DEFAULT">>
        ELSE IF old.default # "none" /\ new.default = "none" THEN <<"DROP DEFAULT">>
        ELSE IF old.default # "none" /\ new.default # "none" /\ old.default = new.default
        THEN <<"SET DEFAULT">>
        ELSE <<>>)

RECURSIVE AlterClauses(_, _, _, _, _)
AlterClauses(st, t, name, new, clauses) ==
    IF Len(clauses) = 0 THEN st
    ELSE LET old == CHOOSE o \in st.db[t].columns : o.name = name
             now == IF clauses[1] = "TYPE" THEN [old EXCEPT !.type = new.type]
                    ELSE [old EXCEPT !.default = new.default]
         IN AlterClauses(
               [Say(st, "ALTER COLUMN", t, name)
                   EXCEPT !.db[t].columns = (@ \ {old}) \cup {now}],
               t, name, new, Tail(clauses))

\* The panic of migrate when a table of an SQLite database needs a column
\* altered
SqliteAlterMessage == "SQLite doesn't support column altering"

\* The message of the panic that refuses a NOT NULL column
NonNullMessage(column, t) ==
    "Cannot add new non null column `" \o column \o "', table `" \o t
       \o "' has records. Consider add a default value or drop the table."

\* One arm of `match m` in the loop over the manipulations
Apply(st, m, t) ==
    LET named == sql_name(m.index, t, st.d) IN
    CASE m.kind = "CreateIndex" ->
            \* index.to_sql_create(dialect, table_name): the database refuses a
            \* second index of one name
            IF \E i \in st.db[t].indices : i.name = named
            THEN Panic(Say(st, "CREATE INDEX", t, named), "index exists")
            ELSE [Say(st, "CREATE INDEX", t, named)
                     EXCEPT !.db[t].indices = @ \cup {Index(m.index.type, named, m.index.items)}]
      [] m.kind = "DropIndex" ->
            \* index.to_sql_drop(dialect, table_name): the database refuses to
            \* drop an index it does not have
            IF \E i \in st.db[t].indices : i.name = named
            THEN [Say(st, "DROP INDEX", t, named)
                     EXCEPT !.db[t].indices = {i \in @ : i.name # named}]
            ELSE Panic(Say(st, "DROP INDEX", t, named), "no such index")
      [] m.kind = "AddColumn" ->
            IF m.column.not_null /\ m.column.default = "none" /\ table_has_records(st, t)
            THEN Panic(Say(st, "RECORDS", t, ""), NonNullMessage(m.column.name, t))
            ELSE [Say(st, "ADD COLUMN", t, m.column.name)
                     EXCEPT !.db[t].columns = @ \cup {m.column}]
      [] m.kind = "AlterColumn" ->
            IF st.d # "PostgreSQL"
            THEN [Say(st, "ALTER COLUMN", t, m.column.name)
                     EXCEPT !.db[t].columns = (@ \ {m.old}) \cup {m.column}]
            ELSE AlterClauses(st, t, m.column.name, m.column,
                              psql_alter_clauses(m.old, m.column))
      [] m.kind = "RemoveColumn" ->
            [Say(st, "DROP COLUMN", t, m.old.name)
                EXCEPT !.db[t].columns = @ \ {m.old}]
      [] m.kind = "RenameColumn" ->
            [Say(st, "RENAME COLUMN", t, m.column.name)
                EXCEPT !.db[t].columns = (@ \ {m.old}) \cup {[m.old EXCEPT !.name = m.column.name]}]

RECURSIVE ApplyAll(_, _, _)
\* for m in manipulations.iter(): a panic ends the run
ApplyAll(st, ms, t) ==
    IF Len(ms) = 0 \/ st.ret # "ok" THEN st
    ELSE ApplyAll(Apply(st, ms[1], t), Tail(ms), t)

\* The plan migrate computes for a table that is there under the model's name
PlanOf(database, d, model) ==
    manipulations(database[model.table_name].columns, decode_model_columns(model),
                  DbIndices(database, d, model.table_name),
                  normalized_model_indices(model.indexes, d, model.table_name))

\* The resolution that takes the last previous name in db_tables
Resolve_last(st, model) ==
    LET t == model.table_name
        present == {i \in 1..Len(model.renamed) : Contains(st.tables, model.renamed[i])}
        last_one == CHOOSE i \in present : \A j \in present : i >= j
    IN IF ~Contains(st.tables, t) /\ present # {}
       THEN [rename_table(st, model.renamed[last_one], t)
                EXCEPT !.tables = Append(Remove(st.tables, model.renamed[last_one]), t)]
       ELSE st

\* if !db_tables.iter().any(|x| x == table_name): the first previous name
\* that is in db_tables is renamed and takes the name's place in db_tables
Resolve(st, model) ==
    LET t == model.table_name
        present == {i \in 1..Len(model.renamed) : Contains(st.tables, model.renamed[i])}
        first == CHOOSE i \in present : \A j \in present : i <= j
    IN IF ~Contains(st.tables, t) /\ present # {}
       THEN [rename_table(st, model.renamed[first], t)
                EXCEPT !.tables = Append(Remove(st.tables, model.renamed[first]), t)]
       ELSE st

\* The body of the loop without the test of the dialect before the plan
MigrateModel_unguarded(st0, model) ==
    LET t == model.table_name
        st == Resolve(st0, model)
        s1 == [Say(st, "COLUMNS", t, "") EXCEPT !.tables = Remove(st.tables, t)]
        s2 == Say(Say(s1, "RECORDS", t, ""), "INDEXES", t, "")
        plan == PlanOf(st.db, st.d, model)
    IN
    IF ~Contains(st.tables, t) THEN create_table(st, model)
    ELSE IF /\ table_has_records(s1, t)
            /\ \E i \in 1..Len(plan) : is_add_column_non_null(plan[i])
            /\ model.allows_drop_when_migrate
    THEN create_table(drop_table(s2, t), model)
    ELSE ApplyAll(s2, plan, t)

\* The body of `for model in models`
MigrateModel(st0, model) ==
    LET t == model.table_name
        st == Resolve(st0, model)
        s1 == [Say(st, "COLUMNS", t, "") EXCEPT !.tables = Remove(st.tables, t)]
        s2 == Say(Say(s1, "RECORDS", t, ""), "INDEXES", t, "")
        plan == PlanOf(st.db, st.d, model)
    IN
    IF ~Contains(st.tables, t) THEN create_table(st, model)
    ELSE IF need_to_alter_any_columns(st.db[t].columns, decode_model_columns(model))
              /\ st.d = "SQLite"
    THEN Panic(s1, SqliteAlterMessage)
    ELSE IF /\ table_has_records(s1, t)
            /\ \E i \in 1..Len(plan) : is_add_column_non_null(plan[i])
            /\ model.allows_drop_when_migrate
    THEN create_table(drop_table(s2, t), model)
    ELSE ApplyAll(s2, plan, t)

RECURSIVE MigrateModels(_, _)
MigrateModels(st, ms) ==
    IF Len(ms) = 0 \/ st.ret # "ok" THEN st
    ELSE MigrateModels(MigrateModel(st, ms[1]), Tail(ms))

RECURSIVE DropTables(_, _)
\* for table in db_tables { drop_table }
DropTables(st, tables) ==
    IF Len(tables) = 0 THEN st
    ELSE DropTables(drop_table(st, tables[1]), Tail(tables))

\* SQLMigration::migrate on the database as it is
Migrate(via, d, database, ms) ==
    LET start == Run(via, d, get_db_user_tables(database), database,
                     <<Stmt("TABLES", via, 0, Len(get_db_user_tables(database)), NoError)>>)
        st == MigrateModels(start, ms)
    IN IF st.ret = "ok" THEN DropTables(st, st.tables) ELSE st

\* SQLTransaction::migrate: SQLMigration::migrate through queryable(). Its
\* first statement, get_db_user_tables, may fail in the driver; its result is
\* unwrapped.
migrate(h, ms) ==
    /\ Held(h)
    /\ models' = ms
    /\ \/ /\ last' = Ret("migrate", h, "panic", TRUE)
          /\ \E e \in OtherFailures : issued' = <<Stmt("TABLES", queryable(h), 0, 0, e)>>
          /\ UNCHANGED db
       \/ LET run == Migrate(queryable(h), handles[h].dialect, db, ms) IN
          /\ last' = [Ret("migrate", h, run.ret, TRUE) EXCEPT !.msg = run.msg]
          /\ issued' = run.issued
          /\ db' = run.db
    /\ UNCHANGED <<object, table, data, found, built>>
    /\ HandleFrame

\* Clients of the database insert rows into a table, or delete its rows.
table_rows(t, some) ==
    /\ db[t].exists
    /\ db' = [db EXCEPT ![t].has_records = some]
    /\ UNCHANGED <<models, last, issued, object, table, data, found, built>>
    /\ HandleFrame

\* ------------------------------------------------------- Query::build
\* 2^Width: i64 and u64 are Width bits wide here
Modulus == 2 ^ Width

\* `x as u64` (and `x as usize`) of an i64
as_u64(x) == x % Modulus

\* i64::abs
abs(x) == IF x < 0 THEN 0 - x ELSE x

\* The LIMIT of a statement with a skip and no take: 18446744073709551615 on
\* MySQL, 9223372036854775806 elsewhere
NoLimit(d) == IF d = "MySQL" THEN Modulus - 1 ELSE (Modulus \div 2) - 2

\* The columns and their directions as the finder gives them
order_by_as_given(model, items, negative_take) ==
    [i \in 1..Len(items) |->
        [column |-> items[i].key,
         dir |-> IF items[i].value = "asc" THEN "ASC" ELSE "DESC"]]

\* Query::order_by: the columns and their directions, inverted under a
\* negative take
order_by(model, items, negative_take) ==
    LET asc == IF negative_take THEN "DESC" ELSE "ASC"
        desc == IF negative_take THEN "ASC" ELSE "DESC"
    IN [i \in 1..Len(items) |->
           [column |-> items[i].key,
            dir |-> IF items[i].value = "asc" THEN asc ELSE desc]]

\* Query::default_desc_order
default_desc_order(model) ==
    [i \in 1..Len(primary_index(model)) |-> By(primary_index(model)[i], "desc")]

\* value.get("cursor").is_some()
has_cursor(value) == "cursor" \in DOMAIN value

\* Err(Error::new(..)) of Query::build
BuildError(msg) == [err |-> msg]

is_err(stmt) == "err" \in DOMAIN stmt

\* Query::build: the SELECT of a finder, as its table, its additional WHERE
\* (names IN values), its ORDER BY and its LIMIT .. OFFSET; under a cursor
\* also the column of the first orderBy entry, the comparison and the cursor's
\* own condition
build_statement(model, value, d, additional_where, force_negative_take) ==
    LET negative_take == IF value.take # <<>> THEN value.take[1] < 0
                         ELSE force_negative_take
    IN [table |-> model,
        cursor |->
           IF has_cursor(value) /\ value.orderBy # <<>>
           THEN <<[column |-> value.orderBy[1].key,
                   op |-> IF value.orderBy[1].value = (IF negative_take THEN "desc" ELSE "asc")
                          THEN ">=" ELSE "<=",
                   where |-> value.cursor]>>
           ELSE <<>>,
        where |-> additional_where,
        order_by |->
           IF value.orderBy # <<>> THEN order_by(model, value.orderBy, negative_take)
           ELSE IF negative_take THEN order_by(model, default_desc_order(model), FALSE)
           ELSE <<>>,
        limit |->
           IF value.pageSize # <<>> /\ value.pageNumber # <<>>
           THEN <<[limit |-> as_u64(value.pageSize[1]),
                   skip |-> as_u64((value.pageNumber[1] - 1) * value.pageSize[1])]>>
           ELSE IF value.skip # <<>> \/ value.take # <<>>
           THEN <<[limit |-> IF value.take # <<>> THEN as_u64(abs(value.take[1]))
                             ELSE NoLimit(d),
                   skip |-> IF value.skip # <<>> THEN as_u64(value.skip[1]) ELSE 0]>>
           ELSE <<>>]

\* Query::build that does not look for the orderBy of a cursor
build_any_cursor(model, value, d, additional_where, force_negative_take) ==
    build_statement(model, value, d, additional_where, force_negative_take)

\* Query::build: the error of a cursor without orderBy, or the statement
build(model, value, d, additional_where, force_negative_take) ==
    IF has_cursor(value) /\ value.orderBy = <<>>
    THEN BuildError("cursor is invalid without order by argument")
    ELSE build_statement(model, value, d, additional_where, force_negative_take)

\* ----------------------------------------------- what the database answers
\* row a comes before row b under ORDER BY order
Before(a, b, order) ==
    \E i \in 1..Len(order) :
       /\ \A j \in 1..(i - 1) : a[order[j].column] = b[order[j].column]
       /\ IF order[i].dir = "ASC" THEN a[order[i].column] < b[order[i].column]
          ELSE a[order[i].column] > b[order[i].column]

\* conn.query(stmt): the rows of the table that satisfy the WHERE (under a
\* cursor, the rows at or after the row of the cursor in the first ORDER BY
\* column), in the ORDER BY order (insertion order without one), LIMIT rows
\* from OFFSET on
Select(tables, stmt) ==
    LET at_cursor == IF "cursor" \in DOMAIN stmt THEN stmt.cursor ELSE <<>>
        FromCursor(r) ==
           \/ at_cursor = <<>>
           \/ \E i \in 1..Len(tables[stmt.table]) :
                 LET c == tables[stmt.table][i] IN
                 /\ c[at_cursor[1].where.key] = at_cursor[1].where.value
                 /\ IF at_cursor[1].op = ">=" THEN r[at_cursor[1].column] >= c[at_cursor[1].column]
                    ELSE r[at_cursor[1].column] <= c[at_cursor[1].column]
        matching == SelectSeq(tables[stmt.table],
                       LAMBDA r : /\ FromCursor(r)
                                  /\ \/ stmt.where = <<>>
                                     \/ [i \in 1..Len(stmt.where[1].names) |->
                                            r[stmt.where[1].names[i]]] \in stmt.where[1].values)
        sorted == IF stmt.order_by = <<>> THEN matching
                  ELSE SortSeq(matching, LAMBDA a, b : Before(a, b, stmt.order_by))
        from == IF stmt.limit = <<>> THEN 0 ELSE stmt.limit[1].skip
        to == IF stmt.limit = <<>> \/ from + stmt.limit[1].limit > Len(sorted)
              THEN Len(sorted) ELSE from + stmt.limit[1].limit
    IN SubSeq(sorted, from + 1, to)

\* ------------------------------------------------ Execution::query_internal
\* Value::Array
Array(list) == [array |-> list]

\* Vec::reverse
Reverse(s) == [i \in 1..Len(s) |-> s[Len(s) + 1 - i]]

\* Execution::without_paging_and_skip_take
without_paging_and_skip_take(value) ==
    [value EXCEPT !.take = <<>>, !.skip = <<>>, !.pageSize = <<>>, !.pageNumber = <<>>]

\* The nested finder with its paging
with_paging_and_skip_take_distinct(value) == value

\* Execution::without_paging_and_skip_take_distinct
without_paging_and_skip_take_distinct(value) ==
    IF value.take # <<>> \/ value.skip # <<>> \/ value.pageSize # <<>> \/ value.pageNumber # <<>>
    THEN [value EXCEPT !.take = <<>>, !.skip = <<>>, !.pageSize = <<>>,
                       !.pageNumber = <<>>, !.distinct = <<>>]
    ELSE value

\* Input::has_negative_take
has_negative_take(value) == value.take # <<>> /\ value.take[1] < 0

\* Execution::sub_hashmap
sub_hashmap(value, keys) == [i \in 1..Len(keys) |-> value[keys[i]]]

\* results.unique_via(..): the first value of every distinct-key tuple
unique_via(results, keys) ==
    LET first == SelectSeq([i \in 1..Len(results) |-> i],
                    LAMBDA i : \A j \in 1..(i - 1) :
                                  sub_hashmap(results[j], keys) # sub_hashmap(results[i], keys))
    IN [k \in 1..Len(first) |-> results[first[k]]]

\* The in-memory skip and take after distinct: the values at the indexes i
\* with skip <= i < skip + take, an absent take being 0
in_memory_take_skip(results, value) ==
    LET skip == IF value.skip # <<>> THEN as_u64(value.skip[1]) ELSE 0
        take == IF value.take # <<>> THEN as_u64(abs(value.take[1])) ELSE 0
        kept == SelectSeq([i \in 1..Len(results) |-> i],
                   LAMBDA i : i - 1 >= skip /\ i - 1 < skip + take)
    IN [k \in 1..Len(kept) |-> results[kept[k]]]

RECURSIVE Bucket(_, _, _, _, _, _, _)
\* for included_value in included_values.iter(), for one parent: the values
\* of the relation after the loop. i is the next included value, skipped and
\* taken the loop's counters.
Bucket(result, rel, inc, included, i, counters, list) ==
    LET skip == inc.skip
        take == inc.take
        take_abs == IF take # <<>> THEN as_u64(abs(take[1])) ELSE 0
        negative_take == take # <<>> /\ take[1] < 0
        matched == \A k \in 1..Len(rel.fields) :
                      included[i][rel.references[k]] = result[rel.fields[k]]
    IN IF i > Len(included) THEN list
       ELSE IF ~matched THEN Bucket(result, rel, inc, included, i + 1, counters, list)
       ELSE IF /\ (skip = <<>> \/ skip[1] <= counters.skipped)
               /\ (take = <<>> \/ counters.taken < take_abs)
       THEN LET grown == IF negative_take THEN <<included[i]>> \o list
                         ELSE Append(list, included[i])
            IN IF take # <<>> /\ counters.taken + 1 >= take_abs THEN grown
               ELSE Bucket(result, rel, inc, included, i + 1,
                           [counters EXCEPT !.taken = @ + 1], grown)
       ELSE Bucket(result, rel, inc, included, i + 1,
                   [counters EXCEPT !.skipped = @ + 1], list)

\* What query_internal returns: the error of Query::build if any, the
\* statements sent, the rows of the first one, and the values
Answer(err, stmts, rows, values) ==
    [err |-> err, stmts |-> stmts, rows |-> rows, values |-> values]

\* The results with the values of the relation under its key: every result of
\* a to-many relation, and of a to-one relation those with a value
with_included(results, rel, inc, included) ==
    [i \in 1..Len(results) |->
        LET list == Bucket(results[i], rel, inc, included, 1,
                           [skipped |-> 0, taken |-> 0], <<>>)
        IN IF rel.is_vec \/ list # <<>>
           THEN results[i] @@ (rel.name :> Array(list))
           ELSE results[i]]

\* query_internal after the nested query_internal of an include returned
include_answer(stmt, rows, results, rel, inc, nested) ==
    IF nested.err # <<>>
    THEN Answer(nested.err, <<stmt>> \o nested.stmts, rows, <<>>)
    ELSE Answer(<<>>, <<stmt>> \o nested.stmts, rows,
                with_included(results, rel, inc, nested.values))

RECURSIVE query_internal(_, _, _, _, _, _)
RECURSIVE query_rows(_, _, _, _, _, _)
\* Execution::query_internal from the rows of its statement on, for a
\* relation without a join table
query_rows(tables, model, value, d, stmt, rows) ==
    LET distinct == value.distinct
        should_in_memory_take_skip ==
           distinct # <<>> /\ (value.skip # <<>> \/ value.take # <<>>)
        reverse == has_negative_take(value)
        reversed == IF reverse THEN Reverse(rows) ELSE rows
        unique == IF distinct # <<>> THEN unique_via(reversed, distinct) ELSE reversed
        results == IF should_in_memory_take_skip
                   THEN IF reverse THEN Reverse(in_memory_take_skip(unique, value))
                        ELSE in_memory_take_skip(unique, value)
                   ELSE unique
    IN IF rows = <<>> THEN Answer(<<>>, <<stmt>>, rows, <<>>)
       ELSE IF value.include = <<>> THEN Answer(<<>>, <<stmt>>, rows, results)
       ELSE LET inc == value.include[1].value
                rel == relation(model, value.include[1].key)
                where_addition ==
                   [names |-> rel.references,
                    values |-> {[k \in 1..Len(rel.fields) |-> results[i][rel.fields[k]]] :
                                   i \in 1..Len(results)}]
            IN include_answer(stmt, rows, results, rel, inc,
                  query_internal(tables, rel.opposite,
                     without_paging_and_skip_take_distinct(inc), d,
                     <<where_addition>>, has_negative_take(inc)))

\* The statement Query::build returned is sent, or its error returned
send_or_err(tables, model, value, d, stmt) ==
    IF is_err(stmt) THEN Answer(<<stmt.err>>, <<>>, <<>>, <<>>)
    ELSE query_rows(tables, model, value, d, stmt, Select(tables, stmt))

\* Execution::query_internal: the statements it sends, the rows of the first
\* one, and the values it returns
query_internal(tables, model, value, d, additional_where, force_negative_take) ==
    LET should_in_memory_take_skip ==
           value.distinct # <<>> /\ (value.skip # <<>> \/ value.take # <<>>)
        value_for_build == IF should_in_memory_take_skip
                           THEN without_paging_and_skip_take(value) ELSE value
    IN send_or_err(tables, model, value, d,
          build(model, value_for_build, d, additional_where, force_negative_take))

\* What Execution::query leaves in found: the answer, or the error of the
\* driver for the first statement. PostgreSQL refuses the statement of a
\* cursor, whose condition names the cursor's column between backticks.
Found(model, finder, answer, d) ==
    IF answer.err # <<>>
    THEN found' = [model |-> model, finder |-> finder, ret |-> "err",
                   stmts |-> answer.stmts, rows |-> <<>>, values |-> <<>>]
    ELSE \/ /\ ~(has_cursor(finder) /\ d = "PostgreSQL")
            /\ found' = [model |-> model, finder |-> finder, ret |-> "ok",
                         stmts |-> answer.stmts, rows |-> answer.rows,
                         values |-> answer.values]
         \/ found' = [model |-> model, finder |-> finder, ret |-> "err",
                      stmts |-> <<answer.stmts[1]>>, rows |-> <<>>, values |-> <<>>]

\* Execution::query: the finder's values, the error of Query::build, or the
\* error of the driver
query(h, model, finder) ==
    /\ Held(h)
    /\ Found(model, finder,
             query_internal(data, model, finder, handles[h].dialect, <<>>, FALSE),
             handles[h].dialect)
    /\ UNCHANGED <<db, models, data, last, issued, object, table, built>>
    /\ HandleFrame

\* ---- the callers of the statement operations
\* The runtime makes a new Object for the caller.
new_object(i, v) ==
    /\ object' = NewObject(i, v)
    /\ UNCHANGED <<last, issued, table>>
    /\ OpsFrame

\* The caller sets a field of a saved Object: the key joins keys_for_save and
\* previous_identifier() keeps the identifier the object was read with.
set_value(k, v) ==
    /\ ~object.is_new
    /\ \/ k = "id" /\ v \in Ids /\ object' = [object EXCEPT !.id = v, !.keys = @ \cup {"id"}]
       \/ k = "val" /\ v \in Vals /\ object' = [object EXCEPT !.val = v, !.keys = @ \cup {"val"}]
    /\ UNCHANGED <<last, issued, table>>
    /\ OpsFrame

\* After a create that returned Ok the runtime marks the Object saved.
clear_new_state ==
    /\ object.is_new
    /\ last.op = "save_object" /\ last.ret = "ok"
    /\ object' = LoadedObject(object.id, object.val)
    /\ UNCHANGED <<last, issued, table>>
    /\ OpsFrame

\* Another client of the database writes or deletes a row.
other_client(i, v) ==
    /\ table' = [table EXCEPT ![i] = v]
    /\ UNCHANGED <<last, issued, object>>
    /\ OpsFrame

\* A handle a Connection method returned, with or without an owned transaction
InitOps ==
    /\ dialect \in Dialects
    /\ memory_mode = FALSE
    /\ checked_out = {1}
    /\ \E t \in {0, OpsHandle} :
          handles = [h \in HandleIds |->
                        IF h = OpsHandle THEN NewSQLTransaction(h, dialect, 1, t)
                        ELSE NoHandle]
    /\ committed = [h \in HandleIds |-> FALSE]
    /\ UNIQUE_TRANSACTION = 0
    /\ mutex = 0
    /\ pc = [p \in Procs |-> "idle"]
    /\ kind = [p \in Procs |-> "none"]
    /\ arcs = [h \in HandleIds |-> IF h = OpsHandle THEN 1 ELSE 0]
    /\ last = Ret("none", 0, "ok", FALSE)
    /\ issued = <<>>
    /\ object = NewObject(1, 1)
    /\ table = [i \in Ids |-> Absent]
    /\ db = EmptyDatabase
    /\ models = <<>>
    /\ data = NoData
    /\ found = NoFound
    /\ built = NoBuilt

\* save_object, delete_object and purge on one Object, with the callers that
\* make, read and change it
NextOps ==
    \/ \E path \in Paths : save_object(OpsHandle, path)
    \/ \E path \in Paths : delete_object(OpsHandle, path)
    \/ purge(OpsHandle)
    \/ \E i \in Ids, path \in Paths : find_unique(OpsHandle, i, path)
    \/ \E i \in Ids, v \in Vals : new_object(i, v)
    \/ \E k \in {"id", "val"}, v \in Ids \cup Vals : set_value(k, v)
    \/ clear_new_state
    \/ \E i \in Ids, v \in Vals \cup {Absent} : other_client(i, v)

SpecOps == InitOps /\ [][NextOps]_vars

\* the operations that take no Object
NextQuery ==
    \/ purge(OpsHandle)
    \/ query_raw(OpsHandle)
    \/ \E op \in FindOps, path \in Paths : find(OpsHandle, op, path)
    \/ migrate(OpsHandle, <<IndexedUserModel>>)
    \/ \E i \in Ids, v \in Vals \cup {Absent} : other_client(i, v)

SpecQuery == InitOps /\ [][NextQuery]_vars

\* migrate with every model list, between the writes of the database's clients
NextMigrate ==
    \/ \E ms \in ModelSets : migrate(OpsHandle, ms)
    \/ \E t \in {"Member", "User"}, some \in BOOLEAN : table_rows(t, some)

\* migrate on a handle without an owned transaction
InitMigrate == InitOps /\ ~is_transaction(OpsHandle)

SpecMigrate == InitMigrate /\ [][NextMigrate]_vars

\* The finders callers pass: orderBy, distinct, skip and take, or pageSize and
\* pageNumber, on Post; include of a relation with its own orderBy, skip and
\* take
Orders == {<<>>, <<By("id", "desc")>>, <<By("score", "asc"), By("id", "desc")>>}

Skips == {<<>>, <<1>>, <<2>>}

Takes == {<<>>, <<1>>, <<2>>, <<-1>>, <<-2>>}

PostFinders ==
    {Finder(o, ds, s, t, <<>>, <<>>, <<>>) :
        o \in Orders, ds \in {<<>>, <<"score">>}, s \in Skips, t \in Takes}
    \cup {Finder(o, ds, <<>>, <<>>, <<p>>, <<n>>, <<>>) :
             o \in Orders, ds \in {<<>>, <<"score">>}, p \in {1, 2}, n \in {0, 1, 2}}
    \cup {Finder(<<>>, <<>>, <<>>, <<>>, <<>>, <<>>, <<Include("author", EmptyFinder)>>)}

UserFinders ==
    {Finder(<<>>, <<>>, <<>>, <<>>, <<>>, <<>>,
            <<Include("posts", Finder(o, <<>>, s, t, <<>>, <<>>, <<>>))>>) :
        o \in {<<>>, <<By("id", "asc")>>, <<By("id", "desc")>>}, s \in Skips, t \in Takes}

\* find_many of every finder on a handle
NextFind ==
    \/ \E finder \in PostFinders : query(OpsHandle, "Post", finder)
    \/ \E finder \in UserFinders : query(OpsHandle, "User", finder)

\* A handle without an owned transaction on a database with rows
InitFind ==
    /\ dialect \in Dialects
    /\ memory_mode = FALSE
    /\ checked_out = {1}
    /\ handles = [h \in HandleIds |->
                     IF h = OpsHandle THEN NewSQLTransaction(h, dialect, 1, 0)
                     ELSE NoHandle]
    /\ committed = [h \in HandleIds |-> FALSE]
    /\ UNIQUE_TRANSACTION = 0
    /\ mutex = 0
    /\ pc = [p \in Procs |-> "idle"]
    /\ kind = [p \in Procs |-> "none"]
    /\ arcs = [h \in HandleIds |-> IF h = OpsHandle THEN 1 ELSE 0]
    /\ last = Ret("none", 0, "ok", FALSE)
    /\ issued = <<>>
    /\ object = NewObject(1, 1)
    /\ table = [i \in Ids |-> Absent]
    /\ db = EmptyDatabase
    /\ models = <<>>
    /\ data \in DataSets
    /\ found = NoFound
    /\ built = NoBuilt

SpecFind == InitFind /\ [][NextFind]_vars

\* The finders with a cursor on the primary key, with and without orderBy
CursorFinders ==
    {("cursor" :> By("id", c)) @@ Finder(o, <<>>, <<>>, t, <<>>, <<>>, <<>>) :
        c \in {11, 12}, o \in Orders, t \in {<<>>, <<1>>, <<-1>>}}

\* find_many of the finders with a cursor, and of those of Post without one
NextCursor ==
    \/ \E finder \in CursorFinders : query(OpsHandle, "Post", finder)
    \/ \E finder \in {f \in PostFinders : f.distinct = <<>> /\ f.pageSize = <<>>} :
          query(OpsHandle, "Post", finder)

SpecCursor == InitFind /\ [][NextCursor]_vars

\* The tables of the finders with an include: those above, and one in which a
\* post of each of two users has the same score
IncludeDataSets ==
    DataSets \cup
    { [User |-> <<UserRow(1), UserRow(2)>>,
       Post |-> <<PostRow(10, 1, 5), PostRow(11, 2, 5), PostRow(12, 2, 6)>>] }

\* The finders of User that include posts with a distinct of their own, with
\* and without skip and take
DistinctIncludeFinders ==
    {Finder(<<>>, <<>>, <<>>, <<>>, <<>>, <<>>,
            <<Include("posts", Finder(o, ds, s, t, <<>>, <<>>, <<>>))>>) :
        o \in {<<>>, <<By("id", "desc")>>}, ds \in {<<"score">>, <<"score", "id">>},
        s \in {<<>>, <<1>>}, t \in {<<>>, <<2>>, <<-2>>}}

\* find_many of User with an include that has a distinct
NextInclude ==
    \/ \E finder \in DistinctIncludeFinders : query(OpsHandle, "User", finder)

\* A handle without an owned transaction on a database with rows
InitInclude ==
    /\ dialect \in Dialects
    /\ memory_mode = FALSE
    /\ checked_out = {1}
    /\ handles = [h \in HandleIds |->
                     IF h = OpsHandle THEN NewSQLTransaction(h, dialect, 1, 0)
                     ELSE NoHandle]
    /\ committed = [h \in HandleIds |-> FALSE]
    /\ UNIQUE_TRANSACTION = 0
    /\ mutex = 0
    /\ pc = [p \in Procs |-> "idle"]
    /\ kind = [p \in Procs |-> "none"]
    /\ arcs = [h \in HandleIds |-> IF h = OpsHandle THEN 1 ELSE 0]
    /\ last = Ret("none", 0, "ok", FALSE)
    /\ issued = <<>>
    /\ object = NewObject(1, 1)
    /\ table = [i \in Ids |-> Absent]
    /\ db = EmptyDatabase
    /\ models = <<>>
    /\ data \in IncludeDataSets
    /\ found = NoFound
    /\ built = NoBuilt

SpecInclude == InitInclude /\ [][NextInclude]_vars

\* ------------------------------------------------------------ the builders
\* What a builder leaves alone: it only returns a text
BuildFrame ==
    /\ HandleFrame
    /\ UNCHANGED <<db, models, data, found, last, issued, object, table>>

\* The characters of the strings callers pass: a letter, the single quote and
\* the backslash
Chars == {"a", "'", "\\"}

\* The strings of up to MaxLen characters, each a sequence of characters
Strs == UNION {[1..n -> Chars] : n \in 0..MaxLen}

\* ToSQLInputDialect::to_sql_input for String and &str, the loop over chars():
\* a single quote becomes \' on MySQL and '' elsewhere, any other character is
\* pushed as it is
RECURSIVE push_chars(_, _)
push_chars(chars, d) ==
    IF chars = <<>> THEN <<>>
    ELSE (IF Head(chars) = "'"
          THEN IF d = "MySQL" THEN <<"\\", "'">> ELSE <<"'", "'">>
          ELSE <<Head(chars)>>) \o push_chars(Tail(chars), d)

to_sql_input(str, d) == <<"'">> \o push_chars(str, d) \o <<"'">>

\* The string literal as the server of the dialect reads it, from position i
\* with acc read so far: '' is one single quote, a single quote alone closes
\* the literal, and on MySQL a backslash takes the next character with it.
RECURSIVE Read(_, _, _, _)
Read(lit, d, i, acc) ==
    IF i > Len(lit) THEN [closed |-> FALSE, at |-> i, value |-> acc]
    ELSE IF lit[i] = "\\" /\ d = "MySQL"
    THEN IF i + 1 > Len(lit) THEN [closed |-> FALSE, at |-> i, value |-> acc]
         ELSE Read(lit, d, i + 2, Append(acc, lit[i + 1]))
    ELSE IF lit[i] = "'"
    THEN IF i + 1 <= Len(lit) /\ lit[i + 1] = "'"
         THEN Read(lit, d, i + 2, Append(acc, "'"))
         ELSE [closed |-> TRUE, at |-> i, value |-> acc]
    ELSE Read(lit, d, i + 1, Append(acc, lit[i]))

read_literal(lit, d) ==
    IF lit = <<>> \/ lit[1] # "'" THEN [closed |-> FALSE, at |-> 0, value |-> <<>>]
    ELSE Read(lit, d, 2, <<>>)

\* A caller encodes a string for the dialect of the connection
encode_string(str) ==
    /\ built' = [op |-> "to_sql_input", dialect |-> dialect, input |-> str,
                 out |-> to_sql_input(str, dialect)]
    /\ BuildFrame

\* The character ` (U+0060), which a string of the model cannot hold, under a
\* name of its own
Backtick == "U+0060"

\* SQLDialect::escape: the identifier quote of the dialect
escape(d) == IF d = "PostgreSQL" THEN "\"" ELSE Backtick

\* SQLEscape::escape for &str and String: the name between the quotes of the
\* dialect. A text is the sequence of its pieces.
escape_str(name, d) ==
    CASE d = "MySQL" -> <<Backtick, name, Backtick>>
      [] d = "PostgreSQL" -> <<"\"", name, "\"">>
      [] OTHER -> <<Backtick, name, Backtick>>

\* The names of tables, columns, indexes and column aliases in the texts
Identifiers ==
    LET columns == {"id", "score", "name"} IN
    {"User", "Post"} \cup columns \cup {"c." \o c : c \in columns}
    \cup {i.name : i \in {NameIndex, NameIdIndex}}
    \cup {sql_name(i, "User", d) : i \in {NameIndex, NameIdIndex}, d \in Dialects}

\* Query::build with a cursor and an orderBy: the table name, the column the
\* sub-select of the cursor projects, and the predicate that compares the
\* column of the first orderBy entry with it
cursor_texts(model, order, negative_take, d) ==
    LET table_name == escape_str(model, d)
        key == order[1].key
        column_key == key
        column == IF d = "PostgreSQL"
                  THEN <<column_key, "AS", "\"", "c." \o column_key, "\"">>
                  ELSE <<column_key, "AS", Backtick, "c." \o column_key, Backtick>>
        op == IF order[1].value = (IF negative_take THEN "desc" ELSE "asc")
              THEN ">=" ELSE "<="
        cursor_where == <<key, op, Backtick, "c." \o key, Backtick>>
    IN <<table_name, column, cursor_where>>

\* Query::order_by as the String it returns: column and direction of every
\* entry, joined by commas
RECURSIVE order_by_text(_)
order_by_text(columns) ==
    IF columns = <<>> THEN <<>>
    ELSE <<columns[1].column, columns[1].dir>>
         \o (IF Len(columns) > 1 THEN <<",">> ELSE <<>>)
         \o order_by_text(Tail(columns))

\* SQLMigration::migrate, ColumnManipulation::RenameColumn: the statement
rename_column_stmt(d, table_name, old, new) ==
    IF d = "PostgreSQL"
    THEN <<"ALTER TABLE", table_name, "RENAME COLUMN", "'", old, "'", "TO", "'", new, "'">>
    ELSE <<"ALTER TABLE", table_name, "RENAME COLUMN", Backtick, old, Backtick, "TO", Backtick, new, Backtick>>

\* IndexExt::sql_format_item with len None
sql_format_item(d, item, table_create_mode) ==
    IF table_create_mode /\ d = "PostgreSQL"
    THEN <<escape(d), item.field, escape(d)>>
    ELSE <<escape(d), item.field, escape(d), IF item.sort = "Asc" THEN "ASC" ELSE "DESC">>

RECURSIVE format_items(_, _, _)
format_items(d, items, sep) ==
    IF items = <<>> THEN <<>>
    ELSE sql_format_item(d, items[1], FALSE)
         \o (IF Len(items) > 1 THEN <<sep>> ELSE <<>>)
         \o format_items(d, Tail(items), sep)

\* SQLCreateIndexOnStatement::to_string
create_index_on_to_string(unique, index, t, columns, d) ==
    <<"CREATE">> \o (IF unique THEN <<"UNIQUE">> ELSE <<>>)
    \o <<"INDEX", Backtick, index, Backtick, "ON", Backtick, t, Backtick, "(">>
    \o format_items(d, columns, ", ") \o <<")">>

\* IndexExt::to_sql_create
to_sql_create(index, d, table_name) ==
    LET index_name == sql_name(index, table_name, d) IN
    <<"CREATE">> \o (IF index.type \in {"Primary", "Unique"} THEN <<"UNIQUE">> ELSE <<>>)
    \o <<"INDEX", escape(d), index_name, escape(d), "ON", escape(d), table_name, escape(d), "(">>
    \o format_items(d, index.items, ",") \o <<")">>

\* IndexExt::to_sql_drop
to_sql_drop(index, d, table_name) ==
    LET index_name == sql_name(index, table_name, d) IN
    IF d = "PostgreSQL"
    THEN <<"DROP INDEX", escape(d), index_name, escape(d)>>
    ELSE <<"DROP INDEX", escape(d), index_name, escape(d), "ON", escape(d), table_name, escape(d)>>

\* Query::build of a finder with a cursor and an orderBy
build_cursor(model, order, negative_take) ==
    /\ built' = [op |-> "cursor", dialect |-> dialect,
                 input |-> [model |-> model, orderBy |-> order, negative_take |-> negative_take],
                 out |-> cursor_texts(model, order, negative_take, dialect)
                         \o <<order_by_text(order_by(model, order, negative_take))>>]
    /\ BuildFrame

\* The statements of a column rename and of an index
rename_column(t, old, new) ==
    /\ old # new
    /\ built' = [op |-> "rename_column", dialect |-> dialect,
                 input |-> [table |-> t, old |-> old, new |-> new],
                 out |-> <<rename_column_stmt(dialect, t, old, new)>>]
    /\ BuildFrame

index_statements(index, t) ==
    /\ built' = [op |-> "index", dialect |-> dialect,
                 input |-> [table |-> t, index |-> index],
                 out |-> <<to_sql_create(index, dialect, t), to_sql_drop(index, dialect, t),
                           create_index_on_to_string(index.type # "Index", index.name, t,
                                                     index.items, dialect)>>]
    /\ BuildFrame

\* ------------------------------------------------------------ Query::where
\* teo_teon::Value: Null, String (its characters), Int64, Bool, Array and
\* Dictionary (entries in insertion order), each with the payload of its tag
Value(tag, s, n, b, a, d) == [tag |-> tag, s |-> s, n |-> n, b |-> b, a |-> a, d |-> d]

Null == Value("null", <<>>, 0, FALSE, <<>>, <<>>)

Str(chars) == Value("string", chars, 0, FALSE, <<>>, <<>>)

Int64(n) == Value("int", <<>>, n, FALSE, <<>>, <<>>)

Bool(b) == Value("bool", <<>>, 0, b, <<>>, <<>>)

Arr(values) == Value("array", <<>>, 0, FALSE, values, <<>>)

Dictionary(entries) == Value("dictionary", <<>>, 0, FALSE, <<>>, entries)

KV(key, value) == [key |-> key, value |-> value]

\* ValueToSQLString::to_sql_string for the types String, Bool and Int: NULL for
\* the null of an optional field, else the literal of the value
to_sql_string(value, type, optional, d) ==
    IF optional /\ value.tag = "null" THEN <<"NULL">>
    ELSE CASE type = "String" -> to_sql_input(value.s, d)
           [] type = "Bool" -> <<IF value.b THEN "TRUE" ELSE "FALSE">>
           [] type = "Int" -> <<ToString(value.n)>>

\* ToWrapped::to_wrapped
to_wrapped(text) == <<"(">> \o text \o <<")">>

\* Vec<String>::join
RECURSIVE join_texts(_, _)
join_texts(texts, sep) ==
    IF texts = <<>> THEN <<>>
    ELSE texts[1] \o (IF Len(texts) > 1 THEN <<sep>> ELSE <<>>)
         \o join_texts(Tail(texts), sep)

\* Query::where_item
where_item(lhs, op, rhs) == lhs \o <<op>> \o rhs

\* Query::where_entry_array with the last element left out
where_entry_array_short(column_name, type, optional, value, op, d) ==
    LET arr == [i \in 1..(Len(value.a) - 1) |-> to_sql_string(value.a[i], type, optional, d)]
    IN where_item(column_name, op, to_wrapped(join_texts(arr, ", ")))

\* Query::where_entry_array
where_entry_array(column_name, type, optional, value, op, d) ==
    LET arr == [i \in 1..Len(value.a) |-> to_sql_string(value.a[i], type, optional, d)]
    IN where_item(column_name, op, to_wrapped(join_texts(arr, ", ")))

\* escape_wisdom of a name given as its segments and the dots between them
RECURSIVE escape_segments(_, _)
escape_segments(text, d) ==
    IF text = <<>> THEN <<>>
    ELSE (IF text[1] = "." THEN <<".">> ELSE <<escape(d), text[1], escape(d)>>)
         \o escape_segments(Tail(text), d)

escape_wisdom(text, d) ==
    IF \E i \in 1..Len(text) : text[i] = escape(d) THEN text
    ELSE escape_segments(text, d)

\* WhereClause::And, Or and Not over the conditions given to it, as
\* to_string or to_wrapped_string is called on it
WhereClause(op, conditions, wrapped) ==
    [clause |-> op, conditions |-> conditions, wrapped |-> wrapped]

\* A builder that panicked returned nothing
Panicked == [panic |-> TRUE]

Returned(text) == [panic |-> FALSE, text |-> text]

\* Query::where_entry_item, the loop over the predicate map from entry i on:
\* the conditions pushed on result, or the panic of an unhandled key. Of the
\* operators, equals, not, gt, gte, lt, lte, in, notIn and mode are modelled;
\* the callers pass no other recognised one.
RECURSIVE where_entry_results(_, _, _, _, _, _)
where_entry_results(column_name, type, optional, entries, i, d) ==
    IF i > Len(entries) THEN Returned(<<>>)
    ELSE LET key == entries[i].key
             value == entries[i].value
             rest == where_entry_results(column_name, type, optional, entries, i + 1, d)
             push(text) == IF rest.panic THEN Panicked ELSE Returned(<<text>> \o rest.text)
         IN CASE key = "equals" ->
                   IF value.tag = "null" THEN push(where_item(column_name, "IS", <<"NULL">>))
                   ELSE push(where_item(column_name, "=", to_sql_string(value, type, optional, d)))
              [] key = "not" ->
                   IF value.tag = "null" THEN push(where_item(column_name, "IS NOT", <<"NULL">>))
                   ELSE push(where_item(column_name, "<>", to_sql_string(value, type, optional, d)))
              [] key = "gt" -> push(where_item(column_name, ">", to_sql_string(value, type, FALSE, d)))
              [] key = "gte" -> push(where_item(column_name, ">=", to_sql_string(value, type, FALSE, d)))
              [] key = "lt" -> push(where_item(column_name, "<", to_sql_string(value, type, FALSE, d)))
              [] key = "lte" -> push(where_item(column_name, "<=", to_sql_string(value, type, FALSE, d)))
              [] key = "in" ->
                   IF value.a # <<>>
                   THEN push(where_entry_array(column_name, type, optional, value, "IN", d))
                   ELSE push(<<"FALSE">>)
              [] key = "notIn" ->
                   IF value.a # <<>>
                   THEN push(where_entry_array(column_name, type, optional, value, "NOT IN", d))
                   ELSE push(<<"TRUE">>)
              [] key = "mode" -> rest
              [] OTHER -> Panicked

\* Query::where_entry_item (and where_entry, which only calls it)
where_entry_item(column_name, type, optional, value, d) ==
    LET column == escape_wisdom(column_name, d) IN
    IF value.tag = "dictionary"
    THEN LET r == where_entry_results(column, type, optional, value.d, 1, d) IN
         IF r.panic THEN Panicked ELSE Returned(WhereClause("AND", r.text, TRUE))
    ELSE Returned(where_item(column, "=", to_sql_string(value, type, optional, d)))

\* The values a caller passes for a field of a type, and the arrays of them
ValuesOf(type, optional) ==
    (CASE type = "String" -> {Str(<<"a">>), Str(<<"'">>)}
       [] type = "Bool" -> {Bool(TRUE), Bool(FALSE)}
       [] type = "Int" -> {Int64(1), Int64(-1)})
    \cup (IF optional THEN {Null} ELSE {})

ArraysOf(type, optional) ==
    {Arr(a) : a \in UNION {[1..n -> ValuesOf(type, optional)] : n \in 0..2}}

\* The predicate maps of the callers: one or two operators, among them an
\* unknown one
PredicateMaps(type, optional) ==
    LET entry == {KV(k, a) : k \in {"in", "notIn"}, a \in ArraysOf(type, optional)}
                 \cup {KV("equals", v) : v \in ValuesOf(type, optional)}
                 \cup {KV("mode", Str(<<"a">>)), KV("resembles", Int64(1))}
    IN {Dictionary(<<e>>) : e \in entry}
       \cup {Dictionary(<<KV("equals", v), e>>) :
                v \in ValuesOf(type, FALSE), e \in {x \in entry : x.key \in {"in", "notIn"}}}

\* A caller builds the condition of one field
where_entry(column_name, type, optional, value) ==
    /\ built' = [op |-> "where_entry_item", dialect |-> dialect,
                 input |-> [column_name |-> column_name, type |-> type,
                            optional |-> optional, value |-> value],
                 out |-> where_entry_item(<<column_name>>, type, optional, value, dialect)]
    /\ BuildFrame

\* model.field(key) of the models User(id) and Post(id, userId, score): the
\* names of their fields, all of the type Int and not optional
ModelFields == [User |-> {"id"}, Post |-> {"id", "userId", "score"}]

has_relation(model, key) == \E r \in Relations[model] : r.name = key

\* The sub-select of a relation condition, as SQL::select(columns, from)
\* .inner_join(join).where(inner_where) is given its parts
SubSelect(columns, from, joined, inner_where) ==
    [select |-> columns, from |-> from, inner_join |-> joined, where |-> inner_where]

\* relation.iter() of a relation without a join table, formatted per pair
\* and joined: the ON condition and the IS NOT NULL conditions
RECURSIVE relation_on(_, _, _)
relation_on(rel, i, d) ==
    IF i > Len(rel.fields) THEN <<>>
    ELSE <<"j.">> \o escape_str(rel.references[i], d) \o <<" = t.">> \o escape_str(rel.fields[i], d)
         \o (IF i < Len(rel.fields) THEN <<",">> ELSE <<>>) \o relation_on(rel, i + 1, d)

RECURSIVE relation_not_null(_, _, _)
relation_not_null(rel, i, d) ==
    IF i > Len(rel.fields) THEN <<>>
    ELSE <<"t.">> \o escape_str(rel.fields[i], d) \o <<" IS NOT NULL">>
         \o (IF i < Len(rel.fields) THEN <<" AND ">> ELSE <<>>) \o relation_not_null(rel, i + 1, d)

\* Query::where: the loop over the keys of the where map from entry i on (the
\* conditions pushed on retval, or the panic of a builder it calls), the
\* loop over the keys of a relation's map, and the map over the array of an
\* AND or OR. A key that is none of AND, OR, NOT, a field or a relation takes
\* no branch: nothing is pushed for it and the loop goes on.
RECURSIVE where_conditions(_, _, _, _, _)
RECURSIVE where_relation(_, _, _, _, _)
RECURSIVE where_each(_, _, _, _, _)
RECURSIVE where(_, _, _, _)
where_conditions(model, entries, i, d, table_alias) ==
    IF i > Len(entries) THEN Returned(<<>>)
    ELSE LET key == entries[i].key
             value == entries[i].value
             rest == where_conditions(model, entries, i + 1, d, table_alias)
             push(r) == IF r.panic \/ rest.panic THEN Panicked
                        ELSE Returned(r.text \o rest.text)
             one(r) == IF r.panic THEN Panicked ELSE Returned(<<r.text>>)
             clause(op, r) ==
                IF r.panic THEN Panicked
                ELSE Returned(<<to_wrapped(<<WhereClause(op, r.text, FALSE)>>)>>)
         IN CASE key = "AND" -> push(clause("AND", where_each(model, value.a, 1, d, table_alias)))
              [] key = "OR" -> push(clause("OR", where_each(model, value.a, 1, d, table_alias)))
              [] key = "NOT" -> push(clause("NOT", one(where(model, value, d, table_alias))))
              [] key \notin {"AND", "OR", "NOT"} /\ key \in ModelFields[model] ->
                   LET entry_column_name ==
                          IF table_alias # <<>> THEN <<table_alias[1], ".", key>> ELSE <<key>>
                   IN push(one(where_entry_item(entry_column_name, "Int", FALSE, value, d)))
              [] key \notin {"AND", "OR", "NOT"} /\ key \notin ModelFields[model]
                 /\ has_relation(model, key) ->
                   push(where_relation(model, relation(model, key), value.d, 1, d))
              [] OTHER -> rest

where_relation(model, rel, entries, i, d) ==
    IF i > Len(entries) THEN Returned(<<>>)
    ELSE LET key == entries[i].key
             sub == where(rel.opposite, entries[i].value, d, <<"j">>)
             rest == where_relation(model, rel, entries, i + 1, d)
             id_columns_string == to_wrapped(escape_str("id", d))
             from == escape_str(model, d) \o <<" AS t">>
             joined == escape_str(rel.opposite, d) \o <<" AS j ON ">> \o relation_on(rel, 1, d)
             addition_where == relation_not_null(rel, 1, d)
             negated == to_wrapped(<<WhereClause("NOT", <<to_wrapped(<<sub.text>>)>>, FALSE)>>)
             inner_where ==
                IF key = "every" THEN <<WhereClause("AND", <<negated, addition_where>>, FALSE)>>
                ELSE IF sub.text.conditions = <<>> THEN addition_where
                ELSE <<WhereClause("AND", <<<<sub.text>>, addition_where>>, FALSE)>>
             inner_stmt == to_wrapped(<<SubSelect(<<"t.id">>, from, joined, inner_where)>>)
         IN IF sub.panic THEN Panicked
            ELSE IF key \notin {"some", "is", "none", "isNot", "every"} THEN Panicked
            ELSE IF rest.panic THEN Panicked
            ELSE Returned(<<id_columns_string
                            \o <<IF key \in {"some", "is"} THEN " IN " ELSE " NOT IN ">>
                            \o inner_stmt>> \o rest.text)

where_each(model, values, i, d, table_alias) ==
    IF i > Len(values) THEN Returned(<<>>)
    ELSE LET r == where(model, values[i], d, table_alias)
             rest == where_each(model, values, i + 1, d, table_alias)
         IN IF r.panic \/ rest.panic THEN Panicked ELSE Returned(<<r.text>> \o rest.text)

where(model, value, d, table_alias) ==
    LET r == where_conditions(model, value.d, 1, d, table_alias) IN
    IF r.panic THEN Panicked ELSE Returned(WhereClause("AND", r.text, FALSE))

\* The where maps of the callers for a model: conditions on fields and
\* relations, AND, OR and NOT, and maps with a key the model does not have
Wheres(model) ==
    LET field(k, v) == Dictionary(<<KV(k, v)>>)
        sub == {Dictionary(<<>>), field("score", Int64(1)), field("nickname", Int64(1)),
                field("id", Dictionary(<<KV("resembles", Int64(1))>>))}
    IN {Dictionary(<<>>), field("id", Int64(1)), field("score", Int64(1)),
        field("score", Dictionary(<<KV("gt", Int64(1))>>)),
        field("id", Dictionary(<<KV("resembles", Int64(1))>>)),
        field("nickname", Int64(1)),
        Dictionary(<<KV("id", Int64(1)), KV("nickname", Int64(1))>>),
        field("AND", Arr(<<field("id", Int64(1)), field("nickname", Int64(1))>>)),
        field("OR", Arr(<<field("id", Int64(1)), field("id", Int64(-1))>>)),
        field("NOT", field("id", Int64(1))),
        field("NOT", field("nickname", Int64(1)))}
       \cup {field(r.name, field(k, w)) :
                r \in Relations[model], k \in {"some", "every", "none", "is", "isNot", "any"},
                w \in sub}

\* A caller builds the WHERE clause of a query on a model
build_where(model, value) ==
    /\ built' = [op |-> "where", dialect |-> dialect,
                 input |-> [model |-> model, value |-> value],
                 out |-> where(model, value, dialect, <<>>)]
    /\ BuildFrame

\* The descriptors of one column as the database has it and as the model
\* declares it: two types, no default or one of two defaults
ColumnsOf(name) ==
    {Col(name, type, not_null, default) :
        type \in {"int", "text"}, not_null \in BOOLEAN, default \in {"none", "'a'", "'b'"}}

\* SQLMigration::psql_alter_clauses of an old and a new descriptor of a
\* column, which migrate calls on PostgreSQL only
alter_clauses(old, new) ==
    /\ dialect = "PostgreSQL"
    /\ built' = [op |-> "psql_alter_clauses", dialect |-> dialect,
                 input |-> [old |-> old, new |-> new],
                 out |-> psql_alter_clauses(old, new)]
    /\ BuildFrame

\* ------------------------------------------------------- index introspection
\* SortExt::from_mysql_str, from_str and from_desc_bool
from_mysql_str(str) == IF str = "A" THEN "Asc" ELSE "Desc"

from_str(str) == IF str = "ASC" THEN "Asc" ELSE "Desc"

from_desc_bool(desc) == IF desc THEN "Desc" ELSE "Asc"

\* The row the database of the dialect reports for item k of an index of
\* table t, under the column names of the dialect's introspection query
IndexRow(index, k, t, d) ==
    LET name == IF index.type = "Primary" THEN normalize_name(index, t, d) ELSE index.name
        item == index.items[k]
    IN CASE d = "MySQL" ->
              [Key_name |-> name, Column_name |-> item.field,
               Collation |-> IF item.sort = "Asc" THEN "A" ELSE "D",
               Non_unique |-> index.type = "Index"]
         [] d = "PostgreSQL" ->
              [index_name |-> name, column_name |-> item.field,
               order |-> IF item.sort = "Asc" THEN "ASC" ELSE "DESC",
               is_unique |-> index.type # "Index", is_primary |-> index.type = "Primary"]
         [] d = "SQLite" ->
              [index_name |-> name, column_name |-> item.field,
               desc |-> item.sort = "Desc",
               is_unique |-> index.type # "Index", is_primary |-> index.type = "Primary"]

\* What the loop of a dialect reads of a row: the index's name, the item, and
\* the type of an index seen for the first time
RowOf(row, d) ==
    CASE d = "MySQL" ->
           [name |-> row.Key_name,
            item |-> Item(row.Column_name, from_mysql_str(row.Collation)),
            type |-> IF row.Key_name = "PRIMARY" THEN "Primary"
                     ELSE IF ~row.Non_unique THEN "Unique" ELSE "Index"]
      [] d = "PostgreSQL" ->
           [name |-> row.index_name,
            item |-> Item(row.column_name, from_str(row.order)),
            type |-> IF row.is_primary THEN "Primary"
                     ELSE IF row.is_unique THEN "Unique" ELSE "Index"]
      [] d = "SQLite" ->
           [name |-> row.index_name,
            item |-> Item(row.column_name, from_desc_bool(row.desc)),
            type |-> IF row.is_primary THEN "Primary"
                     ELSE IF row.is_unique THEN "Unique" ELSE "Index"]

\* for row in result_set, from row i on, with the Vec indices so far. An index
\* seen before is replaced by one with the items `written`: the pushed-on
\* clone on MySQL and PostgreSQL, model_index.items() on SQLite.
RECURSIVE index_rows(_, _, _, _)
index_rows(rows, i, indices, d) ==
    IF i > Len(rows) THEN indices
    ELSE LET row == RowOf(rows[i], d)
             seen == {p \in 1..Len(indices) : indices[p].name = row.name}
         IN IF seen # {}
            THEN LET position == CHOOSE p \in seen : \A o \in seen : p <= o
                     model_index == indices[position]
                     items == Append(model_index.items, row.item)
                     written == IF d = "SQLite" THEN model_index.items ELSE items
                 IN index_rows(rows, i + 1,
                       [indices EXCEPT ![position] =
                           Index(model_index.type, model_index.name, written)], d)
            ELSE index_rows(rows, i + 1,
                    Append(indices, Index(row.type, row.name, <<row.item>>)), d)

\* SQLMigration::mysql_db_indices, psql_db_indices and sqlite_db_indices on
\* the rows of their query: indices.into_iter().collect()
mysql_db_indices(rows) ==
    LET indices == index_rows(rows, 1, <<>>, "MySQL") IN
    {indices[p] : p \in 1..Len(indices)}

psql_db_indices(rows) ==
    LET indices == index_rows(rows, 1, <<>>, "PostgreSQL") IN
    {indices[p] : p \in 1..Len(indices)}

sqlite_rows_db_indices(rows) ==
    LET indices == index_rows(rows, 1, <<>>, "SQLite") IN
    {indices[p] : p \in 1..Len(indices)}

\* SQLMigration::db_indices on the rows the database reports
db_indices(d, rows) ==
    CASE d = "PostgreSQL" -> psql_db_indices(rows)
      [] d = "MySQL" -> mysql_db_indices(rows)
      [] d = "SQLite" -> sqlite_rows_db_indices(rows)

\* The rows of the indexes of a table, one index after the other or with the
\* rows of a second index between those of the first
ReportedRows(t, d) ==
    LET rows(index) == [k \in 1..Len(index.items) |-> IndexRow(index, k, t, d)]
        two == rows(NameIdIndex)
    IN {<<>>, rows(PrimaryIndex), rows(NameIndex), two,
        rows(PrimaryIndex) \o two, two \o rows(NameIndex),
        rows(PrimaryIndex) \o rows(NameIndex) \o two,
        <<two[1]>> \o rows(NameIndex) \o <<two[2]>>,
        <<two[1]>> \o rows(PrimaryIndex) \o <<two[2]>> \o rows(NameIndex)}

\* migrate reads the indexes of a table
introspect(t, rows) ==
    /\ built' = [op |-> "db_indices", dialect |-> dialect,
                 input |-> [table |-> t, rows |-> rows],
                 out |-> db_indices(dialect, rows)]
    /\ BuildFrame

\* the builders, called with every input
NextBuild ==
    \/ \E str \in Strs : encode_string(str)
    \/ \E model \in {"User", "Post"}, key \in {"id", "score"}, v \in {"asc", "desc"},
          negative_take \in BOOLEAN :
          build_cursor(model, <<By(key, v)>>, negative_take)
    \/ \E t \in {"User", "Post"}, old \in {"id", "score", "name"}, new \in {"id", "score", "name"} :
          rename_column(t, old, new)
    \/ \E index \in {NameIndex, NameIdIndex}, t \in {"User"} : index_statements(index, t)
    \/ \E old \in ColumnsOf("name"), new \in ColumnsOf("name") : alter_clauses(old, new)
    \/ \E rows \in ReportedRows("User", dialect) : introspect("User", rows)

SpecBuild == InitOps /\ [][NextBuild]_vars

\* the builders of conditions, called with every input
NextWhere ==
    \/ \E type \in {"String", "Bool", "Int"}, optional \in BOOLEAN :
          \E value \in PredicateMaps(type, optional) \cup ValuesOf(type, optional) :
             where_entry("score", type, optional, value)
    \/ \E model \in {"User", "Post"} : \E value \in Wheres(model) : build_where(model, value)

SpecWhere == InitOps /\ [][NextWhere]_vars

\* ------------------------------------------------------------ the claims
\* Live, is_committed and is_transaction in the state a step leads to
LiveNext(h) == handles'[h] # NoHandle

CommittedNext(h) == committed'[handles'[h].cell]

TransactionNext(h) == handles'[h].tran # 0

IsCall(r) == r.op \in {"transaction", "no_transaction"}

\* C1: on one handle is_committed() is false from construction until a
\* commit() on it has returned success, then stays true for as long as the
\* handle lives; a commit() whose driver commit fails returns an error and
\* does not set the flag (a flag that was false is still false).
C1_CommittedLatch ==
    [][\A h \in HandleIds :
          /\ (~Live(h) /\ LiveNext(h)) => ~CommittedNext(h)
          /\ (Live(h) /\ LiveNext(h) /\ is_committed(h)) => CommittedNext(h)
          /\ (Live(h) /\ LiveNext(h) /\ ~is_committed(h) /\ CommittedNext(h))
                => (last'.op = "commit" /\ last'.h = h /\ last'.ret = "ok")
          /\ (Live(h) /\ last'.op = "commit" /\ last'.h = h /\ last'.ret = "err")
                => (last'.drv /\ CommittedNext(h) = is_committed(h))]_vars

\* a failed commit() has just left its handle uncommitted, beside a handle
\* whose commit() succeeded
C1_Witness ==
    \E h, g \in LiveHandles :
        /\ last = Ret("commit", h, "err", TRUE)
        /\ ~is_committed(h)
        /\ is_committed(g)

\* C2, as claimed: on a handle with no owned SQL transaction commit() and
\* abort() return success, call no driver and leave the whole handle state,
\* the committed flag included, as it was.
C2_NoOpOriginal ==
    [][\A h \in HandleIds :
          (Live(h) /\ handles[h].tran = 0 /\ last'.h = h /\ last'.op \in {"commit", "abort"})
             => /\ last'.ret = "ok"
                /\ ~last'.drv
                /\ handles'[h] = handles[h]
                /\ CommittedNext(h) = is_committed(h)]_vars

\* C2, amended: on such a handle commit() and abort() return success, call no
\* driver and leave dialect, connection and owned transaction as they were;
\* abort() leaves the committed flag alone too, commit() sets it.
C2_NoTranCommitAbort ==
    [][\A h \in HandleIds :
          (Live(h) /\ handles[h].tran = 0 /\ last'.h = h /\ last'.op \in {"commit", "abort"})
             => /\ last'.ret = "ok"
                /\ ~last'.drv
                /\ handles' = handles
                /\ checked_out' = checked_out
                /\ last'.op = "abort" => CommittedNext(h) = is_committed(h)
                /\ last'.op = "commit" => CommittedNext(h)]_vars

\* commit() has returned on a handle without an owned transaction
C2_Witness ==
    /\ last.op = "commit"
    /\ Live(last.h)
    /\ ~is_transaction(last.h)
    /\ last.ret = "ok"
    /\ ~last.drv
    /\ is_committed(last.h)

\* C3, as claimed: any two distinct live handles hold two distinct pooled
\* connections.
C3_DistinctConnsOriginal ==
    \A h1, h2 \in LiveHandles : h1 # h2 => handles[h1].conn # handles[h2].conn

\* C3, amended: any two distinct live handles that transaction() or
\* no_transaction() returned hold two distinct pooled connections, and every
\* live handle's connection is checked out; a handle made by spawn() shares a
\* connection with the handle it was spawned from.
C3_DistinctConns ==
    /\ \A h1, h2 \in LiveHandles :
          (h1 # h2 /\ handles[h1].root /\ handles[h2].root)
             => handles[h1].conn # handles[h2].conn
    /\ \A h \in LiveHandles : handles[h].conn \in checked_out

\* two handles from two calls, and a spawned one on the connection of one of them
C3_Witness ==
    \E h1, h2, h3 \in LiveHandles :
        /\ h1 # h2 /\ handles[h1].root /\ handles[h2].root
        /\ ~handles[h3].root /\ handles[h3].conn = handles[h1].conn

\* C4: in SQLite :memory: mode at most one pool checkout ever succeeds, the
\* connection is never released, every handle is on that connection, and every
\* successful transaction() or no_transaction() returns the handle in the slot.
C4_MemorySingleCheckout ==
    [][MemoryPath =>
          /\ Cardinality(checked_out') <= 1
          /\ checked_out # {} => checked_out' = checked_out
          /\ \A h \in HandleIds : LiveNext(h) => handles'[h].conn \in checked_out'
          /\ (IsCall(last') /\ last'.ret = "ok")
                => (last'.h = UNIQUE_TRANSACTION' /\ LiveNext(last'.h))
          /\ UNIQUE_TRANSACTION # 0 => UNIQUE_TRANSACTION' = UNIQUE_TRANSACTION]_vars

\* two callers have been given the shared handle, one of them without a checkout
C4_Witness ==
    /\ MemoryPath
    /\ UNIQUE_TRANSACTION # 0
    /\ arcs[UNIQUE_TRANSACTION] = 2
    /\ last = Ret("transaction", UNIQUE_TRANSACTION, "ok", FALSE)

C6_CallResultOriginal ==
    /\ (last.op = "transaction" /\ last.ret = "ok")
          => (Live(last.h) /\ is_transaction(last.h) /\ ~is_committed(last.h))
    /\ (last.op = "no_transaction" /\ last.ret = "ok")
          => (Live(last.h) /\ ~is_transaction(last.h))

\* C6, amended: that holds for the server dialects and for SQLite files; in
\* SQLite :memory: mode transaction() and no_transaction() both return the
\* shared handle, which has no owned transaction.
C6_CallResult ==
    /\ (~MemoryPath /\ last.op = "transaction" /\ last.ret = "ok")
          => /\ Live(last.h) /\ is_transaction(last.h) /\ ~is_committed(last.h)
             /\ handles[last.h].conn \in checked_out
    /\ (last.op = "no_transaction" /\ last.ret = "ok")
          => (Live(last.h) /\ ~is_transaction(last.h))
    /\ (MemoryPath /\ last.op = "transaction" /\ last.ret = "ok")
          => (last.h = UNIQUE_TRANSACTION /\ ~is_transaction(last.h))

\* transaction() has returned the shared handle in SQLite :memory: mode
C6_Witness ==
    /\ MemoryPath
    /\ last.op = "transaction" /\ last.ret = "ok"
    /\ ~is_transaction(last.h)

\* C7: a successful spawn() adds a handle with an owned transaction on the
\* parent's pooled connection, the parent's dialect and a committed flag of its
\* own that is false; spawn(), and commit() or abort() of any handle, change
\* is_committed() and is_transaction() of no other handle, the parent included.
C7_Spawn ==
    [][/\ \A q \in HandleIds :
             (spawn(q) /\ last'.ret = "ok")
                => /\ ~Live(last'.h) /\ LiveNext(last'.h)
                   /\ handles'[last'.h].conn = handles[q].conn
                   /\ handles'[last'.h].dialect = handles[q].dialect
                   /\ TransactionNext(last'.h)
                   /\ ~CommittedNext(last'.h)
                   /\ handles'[q] = handles[q]
       /\ \A g \in HandleIds :
             (last'.op \in {"spawn", "commit", "abort"} /\ last'.h # g /\ Live(g))
                => /\ LiveNext(g)
                   /\ CommittedNext(g) = is_committed(g)
                   /\ TransactionNext(g) = is_transaction(g)]_vars

\* a spawned handle has been committed and the handle it shares the connection
\* with is still uncommitted
C7_Witness ==
    \E c, q \in LiveHandles :
        /\ ~handles[c].root /\ handles[q].root
        /\ handles[c].conn = handles[q].conn
        /\ last = Ret("commit", c, "ok", TRUE)
        /\ is_committed(c) /\ ~is_committed(q)

\* The error names of the taxonomy
Taxonomy ==
    {"UniqueValueDuplicated", "NotFound", "ObjectIsNotSavedThusCantBeDeleted",
     "UnknownDatabaseWriteError", "UnknownDatabaseFindError", "InvalidSqlQuery",
     "MigrationFatal"}

\* C8: whenever the driver failed a statement of a Transaction operation, the
\* operation returned an error value of the taxonomy; none panicked.
C8_DriverFailuresReturned ==
    (\E i \in 1..Len(issued) : Failed(issued[i]))
        => (last.ret = "err" /\ last.err \in Taxonomy)

\* C9: update_object puts the previous identifier in the WHERE of its UPDATE;
\* when no row has that identifier and the driver fails nothing it returns
\* NotFound; it changes the object only when it returns Ok; and when the
\* driver fails the UPDATE it returns UnknownDatabaseWriteError and leaves the
\* object as it was.
C9_UpdateObject ==
    [][\A path \in Paths :
          (save_object(OpsHandle, path) /\ ~object.is_new)
             => /\ \A i \in 1..Len(issued') :
                      issued'[i].stmt = "UPDATE" => issued'[i].key = object.previous
                /\ (table[object.previous] = Absent
                      /\ \A i \in 1..Len(issued') : ~Failed(issued'[i]))
                      => (last'.ret = "err" /\ last'.err = "NotFound")
                /\ object' # object => last'.ret = "ok"
                /\ (\E i \in 1..Len(issued') :
                       issued'[i].stmt = "UPDATE" /\ Failed(issued'[i]))
                      => (last'.err = "UnknownDatabaseWriteError" /\ object' = object)]_vars

\* C10: when the driver fails the INSERT or the UPDATE of save_object with a
\* unique-constraint violation the error is UniqueValueDuplicated, at the
\* caller's key path extended by the field for one field, at the caller's key
\* path with the joined names for several fields or with the index name for an
\* index; every other failure of the write is UnknownDatabaseWriteError at the
\* caller's key path.
C10_UniqueClassified ==
    \A i \in 1..Len(issued) :
        (last.op = "save_object" /\ issued[i].stmt \in {"INSERT", "UPDATE"}
            /\ Failed(issued[i]))
        => LET e == issued[i].error IN
           IF e.kind = "UniqueConstraintViolation" /\ e.constraint = "Fields"
                /\ Len(e.names) = 1
           THEN /\ last.err = "UniqueValueDuplicated"
                /\ last.at = Append(last.path, e.names[1])
           ELSE IF e.kind = "UniqueConstraintViolation" /\ e.constraint = "Fields"
           THEN /\ last.err = "UniqueValueDuplicated"
                /\ last.at = last.path
                /\ last.msg = join(e.names)
           ELSE IF e.kind = "UniqueConstraintViolation" /\ e.constraint = "Index"
           THEN /\ last.err = "UniqueValueDuplicated"
                /\ last.at = last.path
                /\ last.msg = e.names[1]
           ELSE /\ last.err = "UnknownDatabaseWriteError"
                /\ last.at = last.path

\* C11: delete_object on an object with is_new() returns
\* ObjectIsNotSavedThusCantBeDeleted at the caller's key path and sends no
\* statement; on a saved object it sends exactly one DELETE, whose WHERE is
\* the object's identifier.
C11_DeleteObject ==
    [][\A path \in Paths :
          delete_object(OpsHandle, path)
             => IF object.is_new
                THEN /\ last'.ret = "err"
                     /\ last'.err = "ObjectIsNotSavedThusCantBeDeleted"
                     /\ last'.at = path
                     /\ issued' = <<>>
                     /\ table' = table
                ELSE /\ Len(issued') = 1
                     /\ issued'[1].stmt = "DELETE"
                     /\ issued'[1].key = object.id]_vars

\* a saved object whose identifier was changed has been deleted
C11_Witness ==
    /\ last.op = "delete_object" /\ last.ret = "ok"
    /\ ~object.is_new
    /\ object.id # object.previous
    /\ Len(issued) = 1 /\ issued[1].rows = 1

\* The statements of migrate that only read
Introspection == {"TABLES", "COLUMNS", "RECORDS", "INDEXES"}

\* C12: a migrate that follows a completed migrate with the same models, on
\* any of the three dialects, completes and sends the database nothing but
\* introspection: no index, column or table statement.
C12_MigrateIdempotent ==
    [][\A ms \in ModelSets :
          (/\ migrate(OpsHandle, ms)
           /\ last.op = "migrate" /\ last.ret = "ok" /\ models = ms
           /\ ~Failed(issued'[1]))
             => /\ last'.ret = "ok"
                /\ \A i \in 1..Len(issued') : issued'[i].stmt \in Introspection]_vars

\* C13: when the plan migrate computes for a table that has records adds a
\* NOT NULL column without a default, then if the model allows the drop the
\* statements that change the table are DROP TABLE, CREATE TABLE and the
\* creation of the model's indexes, and nothing else of the plan; otherwise
\* migrate panics with the message that names the column and the table, and
\* the column is never added.
C13_NonNullColumn ==
    [][\A ms \in ModelSets :
          (migrate(OpsHandle, ms) /\ ~Failed(issued'[1])) =>
             \A k \in 1..Len(ms) :
                LET d == handles[OpsHandle].dialect
                    model == ms[k]
                    t == model.table_name
                    before == MigrateModels(
                                 Run(queryable(OpsHandle), d, get_db_user_tables(db), db, <<>>),
                                 SubSeq(ms, 1, k - 1))
                    st == Resolve(before, model)
                    plan == PlanOf(st.db, d, model)
                    adds == {i \in 1..Len(plan) : is_add_column_non_null(plan[i])}
                    changes == SelectSeq(issued', LAMBDA s : /\ s.stmt \notin Introspection
                                                             /\ s.key[1] = t)
                IN (/\ before.ret = "ok"
                    /\ Contains(st.tables, t)
                    /\ ~(is_sqlite(d) /\ need_to_alter_any_columns(st.db[t].columns,
                                                                  decode_model_columns(model)))
                    /\ table_has_records(st, t)
                    /\ adds # {})
                   => IF model.allows_drop_when_migrate
                      THEN /\ Len(changes) >= 2
                           /\ changes[1].stmt = "DROP TABLE"
                           /\ changes[2].stmt = "CREATE TABLE"
                           /\ \A i \in 3..Len(changes) : changes[i].stmt = "CREATE INDEX"
                           /\ db'[t].columns = decode_model_columns(model)
                      ELSE /\ last'.ret = "panic"
                           /\ \E i \in adds : last'.msg = NonNullMessage(plan[i].column.name, t)
                           /\ \A i \in adds :
                                 /\ plan[i].column.name \notin {c.name : c \in db'[t].columns}
                                 /\ \A j \in 1..Len(issued') :
                                       ~(/\ issued'[j].stmt = "ADD COLUMN"
                                         /\ issued'[j].key = <<t, plan[i].column.name>>)]_vars

\* C14 as stated: on SQLite, when a column of the table a model resolves to
\* needs altering, migrate panics with the SQLite message and has sent nothing
\* but introspection for that model.
C14_SqliteAlterOriginal ==
    [][\A ms \in ModelSets :
          (migrate(OpsHandle, ms) /\ ~Failed(issued'[1])) =>
             \A k \in 1..Len(ms) :
                LET d == handles[OpsHandle].dialect
                    model == ms[k]
                    t == model.table_name
                    before == MigrateModels(
                                 Run(queryable(OpsHandle), d, get_db_user_tables(db), db,
                                     <<issued'[1]>>),
                                 SubSeq(ms, 1, k - 1))
                    st == Resolve(before, model)
                IN (/\ is_sqlite(d)
                    /\ before.ret = "ok"
                    /\ Contains(st.tables, t)
                    /\ need_to_alter_any_columns(st.db[t].columns, decode_model_columns(model)))
                   => /\ last'.ret = "panic"
                      /\ last'.msg = SqliteAlterMessage
                      /\ \A j \in (Len(before.issued) + 1)..Len(issued') :
                            issued'[j].stmt \in Introspection]_vars

\* C14: on SQLite, when a column of the table a model resolves to needs
\* altering, migrate panics with the SQLite message; for that model it has
\* sent introspection and, when the table was found under a previous name, the
\* RENAME of that table to the model's name, and nothing else: the table's
\* columns and indexes are as they were.
C14_SqliteAlter ==
    [][\A ms \in ModelSets :
          (migrate(OpsHandle, ms) /\ ~Failed(issued'[1])) =>
             \A k \in 1..Len(ms) :
                LET d == handles[OpsHandle].dialect
                    model == ms[k]
                    t == model.table_name
                    before == MigrateModels(
                                 Run(queryable(OpsHandle), d, get_db_user_tables(db), db,
                                     <<issued'[1]>>),
                                 SubSeq(ms, 1, k - 1))
                    st == Resolve(before, model)
                IN (/\ is_sqlite(d)
                    /\ before.ret = "ok"
                    /\ Contains(st.tables, t)
                    /\ need_to_alter_any_columns(st.db[t].columns, decode_model_columns(model)))
                   => /\ last'.ret = "panic"
                      /\ last'.msg = SqliteAlterMessage
                      /\ \A j \in (Len(before.issued) + 1)..Len(issued') :
                            \/ issued'[j].stmt \in Introspection
                            \/ /\ issued'[j].stmt = "RENAME TABLE"
                               /\ issued'[j].key[2] = t
                               /\ Contains(model.renamed, issued'[j].key[1])
                               /\ ~Contains(before.tables, t)
                      /\ db'[t].columns = st.db[t].columns
                      /\ db'[t].indices = st.db[t].indices
                      /\ db'[t].exists]_vars

\* migrate panicked on SQLite for a table it had just renamed from a previous
\* name
C14_Witness ==
    /\ last.op = "migrate"
    /\ last.msg = SqliteAlterMessage
    /\ \E j \in 1..Len(issued) : issued[j].stmt = "RENAME TABLE"

C16_DistinctPaging ==
    (/\ found.ret = "ok"
     /\ found.model = "Post"
     /\ found.finder.distinct # <<>>
     /\ (found.finder.skip # <<>> \/ found.finder.take # <<>>))
       => LET f == found.finder
              full == Select(data, build("Post", without_paging_and_skip_take(f),
                                         dialect, <<>>, FALSE))
              filtered == unique_via(full, f.distinct)
              skip == IF f.skip = <<>> THEN 0 ELSE f.skip[1]
              upper == IF f.take = <<>> \/ skip + abs(f.take[1]) > Len(filtered)
                       THEN Len(filtered) ELSE skip + abs(f.take[1])
          IN /\ found.stmts[1].limit = <<>>
             /\ found.values = SubSeq(filtered, skip + 1, upper)

C18_PagingCompose ==
    (/\ found.ret = "ok"
     /\ found.model = "Post"
     /\ found.finder.pageSize # <<>>
     /\ found.finder.pageNumber # <<>>)
       => LET f == found.finder
              P == f.pageSize[1]
              N == f.pageNumber[1]
              other == query_internal(data, "Post",
                          [f EXCEPT !.pageSize = <<>>, !.pageNumber = <<>>,
                                    !.skip = <<(N - 1) * P>>, !.take = <<P>>],
                          dialect, <<>>, FALSE)
          IN /\ found.values = other.values
             /\ found.stmts[1].limit = <<[limit |-> P, skip |-> (N - 1) * P]>>
             /\ other.stmts[1].limit = <<[limit |-> P, skip |-> (N - 1) * P]>>

\* C19: after a query with include {rel: {}} every value has the key rel: an
\* array for a to-many relation, and for a to-one relation the related object
\* or null, not an array.
C19_IncludeCardinality ==
    (/\ found.ret = "ok"
     /\ found.finder.include # <<>>
     /\ found.finder.include[1].value = EmptyFinder)
       => LET rel == relation(found.model, found.finder.include[1].key) IN
          \A i \in 1..Len(found.values) :
             /\ rel.name \in DOMAIN found.values[i]
             /\ ("array" \in DOMAIN found.values[i][rel.name]) <=> rel.is_vec

\* C20 as stated: the included list of every parent is the rows of the
\* relation with the parent's foreign key, in the include's orderBy order,
\* without the first skip and limited to |take|; under a negative take the
\* last |take| of them.
C20_IncludeWindowOriginal ==
    (/\ found.ret = "ok"
     /\ found.model = "User"
     /\ found.finder.include # <<>>)
       => LET inc == found.finder.include[1].value
              S == IF inc.skip = <<>> THEN 0 ELSE inc.skip[1]
          IN \A i \in 1..Len(found.values) :
                LET matching == Select(data,
                                   [table |-> "Post",
                                    where |-> <<[names |-> <<"userId">>,
                                                 values |-> {<<found.values[i].id>>}]>>,
                                    order_by |-> [k \in 1..Len(inc.orderBy) |->
                                                    [column |-> inc.orderBy[k].key,
                                                     dir |-> IF inc.orderBy[k].value = "asc"
                                                             THEN "ASC" ELSE "DESC"]],
                                    limit |-> <<>>])
                    rest == SubSeq(matching, S + 1, Len(matching))
                    K == IF inc.take = <<>> THEN Len(rest) ELSE abs(inc.take[1])
                    window == IF has_negative_take(inc)
                              THEN SubSeq(rest, (IF Len(rest) > K THEN Len(rest) - K ELSE 0) + 1,
                                          Len(rest))
                              ELSE SubSeq(rest, 1, IF K > Len(rest) THEN Len(rest) ELSE K)
                IN found.values[i] = [id |-> found.values[i].id, posts |-> Array(window)]

\* C20: the included list of every parent is a window of the rows of the
\* relation with the parent's foreign key, in the include's orderBy order:
\* without the first skip and limited to take; under a negative take the
\* window is counted from the end: without the last skip, the last |take|. A
\* parent without such rows has an empty array.
C20_IncludeWindow ==
    (/\ found.ret = "ok"
     /\ found.model = "User"
     /\ found.finder.include # <<>>)
       => LET inc == found.finder.include[1].value
              S == IF inc.skip = <<>> THEN 0 ELSE inc.skip[1]
          IN \A i \in 1..Len(found.values) :
                LET matching == Select(data,
                                   [table |-> "Post",
                                    where |-> <<[names |-> <<"userId">>,
                                                 values |-> {<<found.values[i].id>>}]>>,
                                    order_by |-> [k \in 1..Len(inc.orderBy) |->
                                                    [column |-> inc.orderBy[k].key,
                                                     dir |-> IF inc.orderBy[k].value = "asc"
                                                             THEN "ASC" ELSE "DESC"]],
                                    limit |-> <<>>])
                    n == Len(matching)
                    K == IF inc.take = <<>> THEN n ELSE abs(inc.take[1])
                    hi == IF n > S THEN n - S ELSE 0
                    window == IF has_negative_take(inc)
                              THEN SubSeq(matching, (IF hi > K THEN hi - K ELSE 0) + 1, hi)
                              ELSE SubSeq(matching, S + 1, IF S + K > n THEN n ELSE S + K)
                IN found.values[i] = [id |-> found.values[i].id, posts |-> Array(window)]

\* an include with take -1 and skip 1 gave one parent one row and another
\* parent an empty array
C20_Witness ==
    /\ found.ret = "ok"
    /\ found.model = "User"
    /\ found.finder.include # <<>>
    /\ found.finder.include[1].value.take = <<-1>>
    /\ found.finder.include[1].value.skip = <<1>>
    /\ \E i \in 1..Len(found.values) : Len(found.values[i].posts.array) = 1
    /\ \E i \in 1..Len(found.values) : found.values[i].posts.array = <<>>

\* C21: for every string and dialect the literal of the string encoder starts
\* and ends with a single quote and, read under the dialect's string-literal
\* rules, closes at its last character and denotes the string itself.
C21_LiteralRoundTrip ==
    built.op = "to_sql_input" =>
        LET lit == built.out
            read == read_literal(lit, built.dialect)
        IN /\ lit[1] = "'"
           /\ lit[Len(lit)] = "'"
           /\ read.closed
           /\ read.at = Len(lit)
           /\ read.value = built.input

\* C22: every identifier of every emitted text (the SELECT of a cursor, ORDER
\* BY, index create and drop, column rename) stands between two quote
\* characters of the connection's dialect: double quotes on PostgreSQL,
\* backticks on MySQL and SQLite.
C22_IdentifierQuoting ==
    built.op \in {"cursor", "rename_column", "index"} =>
        \A k \in 1..Len(built.out) :
            LET text == built.out[k] IN
            \A i \in 1..Len(text) :
                text[i] \in Identifiers =>
                    /\ i > 1
                    /\ i < Len(text)
                    /\ text[i - 1] = escape(built.dialect)
                    /\ text[i + 1] = escape(built.dialect)

\* C23: in a predicate map, in with an empty array contributes the constant
\* FALSE and notIn with an empty array the constant TRUE; with a non-empty
\* array they contribute the column, IN or NOT IN, and a parenthesised list
\* with one encoded literal per element, for every field type and dialect.
C23_EmptySetPredicates ==
    (built.op = "where_entry_item" /\ built.input.value.tag = "dictionary"
        /\ \A i \in 1..Len(built.input.value.d) :
              built.input.value.d[i].key \in {"equals", "in", "notIn"}) =>
        LET entries == built.input.value.d
            q == escape(built.dialect)
            literal(v) == to_sql_string(v, built.input.type, built.input.optional, built.dialect)
            RECURSIVE list(_)
            list(array) == IF Len(array) = 1 THEN literal(array[1])
                           ELSE literal(array[1]) \o <<", ">> \o list(Tail(array))
        IN /\ ~built.out.panic
           /\ Len(built.out.text.conditions) = Len(entries)
           /\ \A i \in 1..Len(entries) :
                 LET array == entries[i].value.a
                     text == built.out.text.conditions[i]
                 IN entries[i].key \in {"in", "notIn"} =>
                       IF array = <<>>
                       THEN text = <<IF entries[i].key = "in" THEN "FALSE" ELSE "TRUE">>
                       ELSE text = <<q, built.input.column_name, q,
                                     IF entries[i].key = "in" THEN "IN" ELSE "NOT IN", "(">>
                                   \o list(array) \o <<")">>

\* a predicate map with an empty in on PostgreSQL gave FALSE
C23_Witness ==
    /\ built.op = "where_entry_item"
    /\ built.dialect = "PostgreSQL"
    /\ built.input.value = Dictionary(<<KV("in", Arr(<<>>))>>)
    /\ built.out = Returned(WhereClause("AND", << <<"FALSE">> >>, TRUE))

\* C24: a finder with a cursor and no orderBy is rejected: Query::build
\* returns an error, and the find operation returns an error without any
\* statement sent to the driver.
C24_CursorNeedsOrderBy ==
    (has_cursor(found.finder) /\ found.finder.orderBy = <<>>) =>
        /\ is_err(build(found.model, found.finder, dialect, <<>>, FALSE))
        /\ found.ret = "err"
        /\ found.stmts = <<>>
        /\ found.values = <<>>

\* a find_many with a cursor and a take, without orderBy, returned an error
C24_Witness ==
    /\ has_cursor(found.finder)
    /\ found.finder.orderBy = <<>>
    /\ found.finder.take = <<1>>
    /\ found.ret = "err"
    /\ found.stmts = <<>>

\* C25: psql_alter_clauses emits ALTER .. TYPE iff the type differs, SET
\* DEFAULT iff the new column has a default and the old one has none or a
\* different one, DROP DEFAULT iff the old column has a default and the new one
\* has none, and no default statement when both defaults are equal.
C25_AlterClauses ==
    built.op = "psql_alter_clauses" =>
        LET old == built.input.old
            new == built.input.new
            Emits(clause) == \E i \in 1..Len(built.out) : built.out[i] = clause
        IN /\ Emits("TYPE") <=> old.type # new.type
           /\ Emits("SET DEFAULT") <=> (new.default # "none" /\ old.default # new.default)
           /\ Emits("DROP DEFAULT") <=> (old.default # "none" /\ new.default = "none")

\* C26: index introspection returns one descriptor for every index the
\* database reports rows of, and the items of the descriptor are the columns of
\* the index's rows, one item per row, in the order of the rows, on MySQL,
\* PostgreSQL and SQLite alike.
C26_IndexIntrospection ==
    built.op = "db_indices" =>
        LET d == built.dialect
            rows == built.input.rows
            NameOf(row) == IF d = "MySQL" THEN row.Key_name ELSE row.index_name
            ColumnOf(row) == IF d = "MySQL" THEN row.Column_name ELSE row.column_name
            names == {NameOf(rows[i]) : i \in 1..Len(rows)}
            RowsOfIndex(n) == SelectSeq(rows, LAMBDA row : NameOf(row) = n)
        IN /\ {index.name : index \in built.out} = names
           /\ Cardinality(built.out) = Cardinality(names)
           /\ \A index \in built.out :
                 /\ Len(index.items) = Len(RowsOfIndex(index.name))
                 /\ \A k \in 1..Len(index.items) :
                       index.items[k].field = ColumnOf(RowsOfIndex(index.name)[k])

\* C27: the distinct of an include is applied per parent and before the
\* include's skip and take: no parent's included list has two rows equal on
\* the distinct keys, and (without skip and take) every row of the relation
\* with the parent's foreign key has a row with its distinct keys in the
\* parent's list, whatever the rows of other parents are.
C27_IncludeDistinct ==
    (/\ found.ret = "ok"
     /\ found.model = "User"
     /\ found.finder.include # <<>>
     /\ found.finder.include[1].value.distinct # <<>>)
       => LET inc == found.finder.include[1].value
              keys == inc.distinct
          IN \A i \in 1..Len(found.values) :
                LET list == found.values[i].posts.array
                    own == SelectSeq(data.Post, LAMBDA r : r.userId = found.values[i].id)
                IN /\ \A j, k \in 1..Len(list) :
                         j # k => sub_hashmap(list[j], keys) # sub_hashmap(list[k], keys)
                   /\ (inc.skip = <<>> /\ inc.take = <<>>) =>
                         \A r \in 1..Len(own) :
                            \E j \in 1..Len(list) :
                               sub_hashmap(list[j], keys) = sub_hashmap(own[r], keys)

\* C28: building a WHERE clause panics instead of returning a condition
\* whenever the where map has a top-level key that is not AND, OR, NOT, a
\* field or a relation of the model, and building the condition of a field
\* panics whenever its predicate map has a key outside the recognised
\* operators; no unknown key is dropped from the condition.
C28_UnknownKeysPanic ==
    LET Operators == {"equals", "not", "gt", "gte", "lt", "lte", "in", "notIn", "contains",
                      "startsWith", "endsWith", "matches", "mode", "has", "hasEvery",
                      "hasSome", "isEmpty", "length", "_count", "_avg", "_sum", "_min", "_max"}
        known(model) == {"AND", "OR", "NOT"} \cup ModelFields[model]
                        \cup {r.name : r \in Relations[model]}
        entries == built.input.value.d
    IN /\ (built.op = "where"
           /\ \E i \in 1..Len(entries) : entries[i].key \notin known(built.input.model))
          => built.out.panic
       /\ (built.op = "where_entry_item" /\ built.input.value.tag = "dictionary"
           /\ \E i \in 1..Len(entries) : entries[i].key \notin Operators)
          => built.out.panic

\* C29: on a handle with an owned transaction, every statement that
\* save_object, delete_object, purge or a find operation sent to the driver
\* went through the owned transaction, never through the pooled connection
\* itself, on every dialect.
C29_StatementsThroughTransaction ==
    (handles[OpsHandle].tran # 0
     /\ last.op \in {"save_object", "delete_object", "purge", "find_unique", "query_raw"} \cup FindOps)
    => \A i \in 1..Len(issued) : issued[i].via = "tran"

\* C30: once a commit() or abort() on a handle with an owned transaction has
\* returned success, the next commit() or abort() on the same handle does not
\* reach the driver again.
C30_OneTerminalCall ==
    [][(/\ last.op \in {"commit", "abort"} /\ last.ret = "ok" /\ last.drv
        /\ last'.op \in {"commit", "abort"} /\ last'.h = last.h
        /\ handles[last.h].tran # 0)
       => ~last'.drv]_vars

====
